---- MODULE Spec2Model ----
(***************************************************************************)
(* Model of the leakage-safe feature/label pipeline and the walk-forward   *)
(* validation engine of smart-research-trader:                             *)
(*   - ml/timesplit.py      expanding_window_split                         *)
(*   - data/features/fundamentals.py  asof_join_fundamentals               *)
(*   - ml/labeling.py       compute_forward_returns,                       *)
(*                          upsert_labels_to_features                      *)
(*   - data/etl/compute_features.py   _upsert_features                     *)
(* Dates are day ordinals (integers); a Timedelta of d days is the integer *)
(* d.  Tickers are the ranks of the ticker strings in their sort order.    *)
(***************************************************************************)
EXTENDS Integers, Sequences, FiniteSets, TLC

VARIABLES
    split_in,     \* arguments of the expanding_window_split call
    split_out,    \* its outcome, or None before the call
    asof_in,      \* arguments of the asof_join_fundamentals call
    asof_out,     \* its outcome, or None before the call
    label_in,     \* arguments of the compute_forward_returns call
    label_out,    \* its outcome, or None before the call
    features,     \* the features table: (ticker, dt) -> row
    db_call,      \* the last operation run against the features table
    db_ret,       \* what that operation returned
    label_runs,   \* per session, the label run between its SELECT and UPDATEs
    preds,        \* the preds table: (ticker, dt, horizon) -> row
    pred_call,    \* the last upsert_predictions call
    pred_ret,     \* what that call returned
    sent_in,      \* arguments of the aggregate_news_sentiment call
    sent_out,     \* its outcome, or None before the call
    clean_in,     \* arguments of the clean_features call
    clean_out,    \* its outcome, or None before the call
    comp_in,      \* arguments of the compute_composite_scores call
    comp_out,     \* its outcome, or None before the call
    weights_in,   \* COMPOSITE_WEIGHTS at the get_composite_weights call
    weights_out,  \* its outcome, or None before the call
    tech_in,      \* arguments of the compute_technical_indicators call
    tech_out,     \* its outcome, or None before the call
    val_in,       \* arguments of the relative_valuation call
    val_out,      \* its outcome, or None before the call
    train_in,     \* arguments of the train_with_walk_forward_cv call
    train_out,    \* its outcome, or None before the call
    std_in,       \* the forecaster and K of the predict_with_std call
    std_out       \* its outcome, or None before the call

splitVars == <<split_in, split_out>>
asofVars == <<asof_in, asof_out>>
labelVars == <<label_in, label_out>>
dbVars == <<features, db_call, db_ret, label_runs>>
predVars == <<preds, pred_call, pred_ret>>
sentVars == <<sent_in, sent_out>>
cleanVars == <<clean_in, clean_out>>
compVars == <<comp_in, comp_out>>
weightsVars == <<weights_in, weights_out>>
techVars == <<tech_in, tech_out>>
valVars == <<val_in, val_out>>
trainVars == <<train_in, train_out>>
stdVars == <<std_in, std_out>>
lastVars == <<valVars, trainVars, stdVars>>

\* the variables of the subsystems that follow the features table
laterVars ==
    <<predVars, sentVars, cleanVars, compVars, weightsVars, techVars, lastVars>>

vars == <<splitVars, asofVars, labelVars, dbVars, laterVars>>

\* A call that has not been made: no arguments, no outcome
None == [none |-> TRUE]
\* A nullable numeric cell: <<>> when missing (NaN / None), <<v>> when it holds v
NaN == <<>>
Val(v) == <<v>>

Max(a, b) == IF a >= b THEN a ELSE b
Min(a, b) == IF a <= b THEN a ELSE b

(***************************************************************************)
(* Bounds of the model.                                                    *)
(***************************************************************************)
MaxN == 5            \* longest date sequence given to the splitter
MaxSplitDay == 6     \* splitter dates are drawn from 0..MaxSplitDay
MaxSplits == 3       \* n_splits ranges over 1..MaxSplits
MaxEmbargo == 2      \* embargo_days ranges over 0..MaxEmbargo

MaxDay == 3          \* trading and as-of dates are drawn from 0..MaxDay
MaxTradingRows == 3  \* rows of the trading-day table given to the as-of join
MaxSnapshots == 2    \* rows of the fundamentals table given to the as-of join

MaxPriceRows == 5    \* rows of the price frame given to the labeler
MaxHorizon == 2      \* horizon_days ranges over 0..MaxHorizon

MaxBatch == 2        \* rows of a frame given to an upsert of the features table

\* the dates of the features table
DbDays == {0, 1}

\* the instruments of the features table
DbTickers == {1}

\* the database sessions that label runs are made in: a run holds its session
\* from its SELECT to its commit, and runs of different sessions interleave
Sessions == {1, 2}

\* contents of features_json, by version of the pipeline's output
FeatureValues == {1, 2}

\* label columns of a label frame, by horizon: label_ret_1d, label_ret_2d
LabelColumns == {1, 2}

\* close prices of the price frames
Closes == {100, 110}

\* the instruments: two tickers, by rank in sort order
Tickers == {1, 2}

\* settings.FUND_FFILL_DAYS: the default, and short caps set through the
\* environment so that a gap beyond the cap happens within 0..MaxDay
FUND_FFILL_DAYS == 120
ShortFfillDays == {1, 2}

\* test_size as a percentage: 0.2 and 0.5 (int(n * test_size) is exact for these)
TestSizePcts == {20, 50}

(***************************************************************************)
(* ml/timesplit.py                                                         *)
(***************************************************************************)
IsSorted(s) == \A i \in 1..(Len(s) - 1) : s[i] <= s[i + 1]

\* np.sort(dates_arr): ascending insertion into an already sorted prefix
RECURSIVE InsertSorted(_, _)
InsertSorted(x, s) ==
    IF s = <<>> THEN <<x>>
    ELSE IF x <= Head(s) THEN <<x>> \o s
    ELSE <<Head(s)>> \o InsertSorted(x, Tail(s))

RECURSIVE NpSort(_)
NpSort(s) == IF s = <<>> THEN <<>> ELSE InsertSorted(Head(s), NpSort(Tail(s)))

\* test_window_size = int(n_samples * test_size); if < 1: 1
TestWindowSize(n_samples, test_pct) ==
    LET t == (n_samples * test_pct) \div 100
    IN  IF t < 1 THEN 1 ELSE t

\* step = max(1, available_for_test // n_splits)
Step(n_samples, test_window_size, n_splits) ==
    Max(1, (n_samples - test_window_size) \div n_splits)

\* Mutant: the first test window ends at test_window_size
TestEndIdx_FromZero(n_samples, test_window_size, step, i) ==
    Min(n_samples, test_window_size + i * step)

\* test_end_idx = min(n_samples, test_window_size + (i + 1) * step)
TestEndIdx(n_samples, test_window_size, step, i) ==
    Min(n_samples, test_window_size + (i + 1) * step)

\* test_start_idx = max(0, test_end_idx - test_window_size)
TestStartIdx(test_end_idx, test_window_size) ==
    Max(0, test_end_idx - test_window_size)

\* Mutant: the embargo is ignored, train always ends the day before the test
TrainEndDate_NoEmbargo(test_start_date, embargo_days) == test_start_date - 1

\* Mutant: without embargo the train window runs up to the test start itself
TrainEndDate_Inclusive(test_start_date, embargo_days) ==
    IF embargo_days > 0 THEN test_start_date - embargo_days
    ELSE test_start_date

\* train_end_date: embargo_days before the test start, one day when no embargo
TrainEndDate(test_start_date, embargo_days) ==
    IF embargo_days > 0 THEN test_start_date - embargo_days
    ELSE test_start_date - 1

\* the 0-based positions of an array of n_samples entries, ascending; np.where
\* selects from them the positions where a mask holds
Positions(n_samples) == [j \in 1..n_samples |-> j - 1]

\* Mutant: a rolling two-day train window instead of an expanding one
TrainIndices_Rolling(dates_sorted, train_end_date) ==
    SelectSeq(Positions(Len(dates_sorted)),
            LAMBDA j : dates_sorted[j + 1] <= train_end_date
                       /\ dates_sorted[j + 1] > train_end_date - 2)

\* Mutant: the train mask runs one day further
TrainIndices_OneDayMore(dates_sorted, train_end_date) ==
    SelectSeq(Positions(Len(dates_sorted)),
            LAMBDA j : dates_sorted[j + 1] <= train_end_date + 1)

\* train_mask = dates_sorted <= train_end_date
TrainIndices(dates_sorted, train_end_date) ==
    SelectSeq(Positions(Len(dates_sorted)), LAMBDA j : dates_sorted[j + 1] <= train_end_date)

\* test_mask = (dates_sorted >= test_start_date) & (dates_sorted <= test_end_date)
TestIndices(dates_sorted, test_start_date, test_end_date) ==
    SelectSeq(Positions(Len(dates_sorted)),
            LAMBDA j : dates_sorted[j + 1] >= test_start_date
                       /\ dates_sorted[j + 1] <= test_end_date)

\* One pass of the loop body for candidate fold i (0-based)
CandidateFold(dates_sorted, n_splits, embargo_days, test_pct, i) ==
    LET n_samples == Len(dates_sorted)
        tws == TestWindowSize(n_samples, test_pct)
        step == Step(n_samples, tws, n_splits)
        test_end_idx == TestEndIdx(n_samples, tws, step, i)
        test_start_idx == TestStartIdx(test_end_idx, tws)
        test_start_date == dates_sorted[test_start_idx + 1]
        test_end_date == dates_sorted[test_end_idx]
        train_end_date == TrainEndDate(test_start_date, embargo_days)
    IN  [i |-> i,
         test_start_idx |-> test_start_idx,
         test_end_idx |-> test_end_idx,
         beyond |-> test_end_idx > n_samples,
         train |-> TrainIndices(dates_sorted, train_end_date),
         test |-> TestIndices(dates_sorted, test_start_date, test_end_date)]

\* Mutant: a fold with an empty side is kept
FoldSkipped_BeyondOnly(c) == c.beyond

\* `continue` conditions of the loop: window beyond the data, or an empty side
FoldSkipped(c) == c.beyond \/ Len(c.train) = 0 \/ Len(c.test) = 0

\* Mutant: the empty-result check is missing, an empty list is returned
SplitsOutcome_NoCheck(splits) == [status |-> "ok", splits |-> splits]

\* if not splits: raise ValueError
SplitsOutcome(splits) ==
    IF splits = <<>> THEN [status |-> "ValueError", splits |-> <<>>]
    ELSE [status |-> "ok", splits |-> splits]

expanding_window_split(dates, n_splits, embargo_days, test_pct) ==
    LET dates_sorted == NpSort(dates)
        n_samples == Len(dates_sorted)
    IN  IF n_samples < n_splits + 1
        THEN [status |-> "ValueError", splits |-> <<>>]
        ELSE LET cand(i) == CandidateFold(dates_sorted, n_splits, embargo_days,
                                          test_pct, i)
                 kept == SelectSeq([k \in 1..n_splits |-> k - 1],
                                   LAMBDA i : ~FoldSkipped(cand(i)))
                 splits == [k \in 1..Len(kept) |->
                               [train |-> cand(kept[k]).train,
                                test |-> cand(kept[k]).test]]
             IN  SplitsOutcome(splits)

SplitDates ==
    {s \in UNION {[1..n -> 0..MaxSplitDay] : n \in 0..MaxN} : IsSorted(s)}

SplitArgs ==
    [dates : SplitDates, n_splits : 1..MaxSplits,
     embargo_days : 0..MaxEmbargo, test_pct : TestSizePcts]

SplitIdle == split_in = None /\ split_out = None
AsofIdle == asof_in = None /\ asof_out = None
LabelIdle == label_in = None /\ label_out = None
DbIdle ==
    /\ features = <<>>
    /\ db_call = None
    /\ db_ret = None
    /\ label_runs = [s \in Sessions |-> None]
PredIdle == preds = <<>> /\ pred_call = None /\ pred_ret = None
SentIdle == sent_in = None /\ sent_out = None
CleanIdle == clean_in = None /\ clean_out = None
CompIdle == comp_in = None /\ comp_out = None
WeightsIdle == weights_in = None /\ weights_out = None
TechIdle == tech_in = None /\ tech_out = None
ValIdle == val_in = None /\ val_out = None
TrainIdle == train_in = None /\ train_out = None
StdIdle == std_in = None /\ std_out = None
LastIdle == ValIdle /\ TrainIdle /\ StdIdle
LaterIdle ==
    /\ PredIdle /\ SentIdle /\ CleanIdle /\ CompIdle /\ WeightsIdle /\ TechIdle
    /\ LastIdle

SplitCall ==
    /\ split_in # None
    /\ split_out = None
    /\ split_out' = expanding_window_split(split_in.dates, split_in.n_splits,
                                           split_in.embargo_days, split_in.test_pct)
    /\ UNCHANGED <<split_in, asofVars, labelVars, dbVars, laterVars>>

InitSplit ==
    /\ split_in \in SplitArgs
    /\ split_out = None
    /\ AsofIdle /\ LabelIdle /\ DbIdle /\ LaterIdle

NextSplit == SplitCall

SpecSplit == InitSplit /\ [][NextSplit]_vars

(***************************************************************************)
(* data/features/fundamentals.py                                           *)
(* A trading-day row is [ticker, dt]; a fundamentals row is                *)
(* [ticker, asof, pe]; a joined row is [ticker, dt, pe].                   *)
(***************************************************************************)
\* lexicographic order of sort_values(["ticker", <date column>])
KeyLeq(t1, d1, t2, d2) == t1 < t2 \/ (t1 = t2 /\ d1 <= d2)

\* position of row j of a frame after a stable sort on (ticker, date)
SortRank(tickers, dates, j) ==
    1 + Cardinality({k \in DOMAIN tickers :
                        \/ ~KeyLeq(tickers[j], dates[j], tickers[k], dates[k])
                        \/ (tickers[k] = tickers[j] /\ dates[k] = dates[j] /\ k < j)})

\* trading_days_df.sort_values(["ticker", "dt"])
SortTradingDays(s) ==
    LET tickers == [j \in DOMAIN s |-> s[j].ticker]
        dates == [j \in DOMAIN s |-> s[j].dt]
    IN  [i \in DOMAIN s |->
            s[CHOOSE j \in DOMAIN s : SortRank(tickers, dates, j) = i]]

\* fundamentals_df.sort_values(["ticker", "asof"])
SortFundamentals(s) ==
    LET tickers == [j \in DOMAIN s |-> s[j].ticker]
        dates == [j \in DOMAIN s |-> s[j].asof]
    IN  [i \in DOMAIN s |->
            s[CHOOSE j \in DOMAIN s : SortRank(tickers, dates, j) = i]]

\* pandas merge_asof requires the `on` key of each frame to be sorted over the
\* whole frame, whatever the `by` groups: "left keys must be sorted"
LeftKeysSorted(left) ==
    \A i \in 1..(Len(left) - 1) : left[i].dt <= left[i + 1].dt

\* "right keys must be sorted"
RightKeysSorted(right) ==
    \A i \in 1..(Len(right) - 1) : right[i].asof <= right[i + 1].asof

\* merge_asof drops a match only when left - right > tolerance
WithinTolerance(dt, asof, tolerance) == ~(dt - asof > tolerance)

\* direction="backward", by="ticker": positions of the snapshots of the row's
\* ticker whose as-of date is at or before the row's date
BackwardCandidates(row, right) ==
    {p \in 1..Len(right) :
        right[p].ticker = row.ticker /\ right[p].asof <= row.dt}

\* the pe merged into one left row: that of the last candidate when it lies
\* within the tolerance, missing otherwise
AsofValue(row, right, tolerance) ==
    LET cands == BackwardCandidates(row, right)
    IN  IF cands = {} THEN NaN
        ELSE LET p == CHOOSE q \in cands :
                          \A o \in cands :
                              right[o].asof < right[q].asof
                              \/ (right[o].asof = right[q].asof /\ o <= q)
             IN  IF WithinTolerance(row.dt, right[p].asof, tolerance)
                 THEN Val(right[p].pe)
                 ELSE NaN

\* pd.merge_asof(left, right, left_on="dt", right_on="asof", by="ticker",
\*               direction="backward", tolerance=...), asof column dropped
merge_asof(left, right, tolerance) ==
    IF ~LeftKeysSorted(left) \/ ~RightKeysSorted(right)
    THEN [status |-> "ValueError", rows |-> <<>>]
    ELSE [status |-> "ok",
          rows |-> [i \in 1..Len(left) |->
                       [ticker |-> left[i].ticker, dt |-> left[i].dt,
                        pe |-> AsofValue(left[i], right, tolerance)]]]

asof_join_fundamentals(trading_days_df, fundamentals_df, ffill_days) ==
    IF trading_days_df = <<>>
    THEN [status |-> "ok", rows |-> <<>>]
    ELSE IF fundamentals_df = <<>>
    THEN [status |-> "ok",
          rows |-> [i \in 1..Len(trading_days_df) |->
                       [ticker |-> trading_days_df[i].ticker,
                        dt |-> trading_days_df[i].dt, pe |-> NaN]]]
    ELSE merge_asof(SortTradingDays(trading_days_df),
                    SortFundamentals(fundamentals_df), ffill_days)

Keys == Tickers \X (0..MaxDay)

\* the rows of a key set as a frame in (ticker, date) order
RECURSIVE KeysInOrder(_)
KeysInOrder(S) ==
    IF S = {} THEN <<>>
    ELSE LET m == CHOOSE k \in S :
                      \A o \in S : KeyLeq(k[1], k[2], o[1], o[2])
         IN  <<m>> \o KeysInOrder(S \ {m})

TradingDaysOf(S) ==
    LET ks == KeysInOrder(S)
    IN  [i \in 1..Len(ks) |-> [ticker |-> ks[i][1], dt |-> ks[i][2]]]

\* each snapshot carries a pe of its own, which tells the snapshots apart
PeOf(ticker, asof) == 100 * ticker + asof

FundamentalsOf(S) ==
    LET ks == KeysInOrder(S)
    IN  [i \in 1..Len(ks) |->
            [ticker |-> ks[i][1], asof |-> ks[i][2], pe |-> PeOf(ks[i][1], ks[i][2])]]

\* test_asof_join_with_gap: one ticker, 150 daily rows, one snapshot on day 0
GapTestRows == 150
GapTestArgs ==
    [trading_days_df |-> [i \in 1..GapTestRows |-> [ticker |-> 1, dt |-> i - 1]],
     fundamentals_df |-> <<[ticker |-> 1, asof |-> 0, pe |-> PeOf(1, 0)]>>,
     ffill_days |-> FUND_FFILL_DAYS]

\* the key sets of the trading-day and of the fundamentals frames
TradingKeySets == {X \in SUBSET Keys : Cardinality(X) <= MaxTradingRows}
SnapshotKeySets == {X \in SUBSET Keys : Cardinality(X) <= MaxSnapshots}

AsofCall ==
    /\ asof_in # None
    /\ asof_out = None
    /\ asof_out' = asof_join_fundamentals(asof_in.trading_days_df,
                                          asof_in.fundamentals_df,
                                          asof_in.ffill_days)
    /\ UNCHANGED <<splitVars, asof_in, labelVars, dbVars, laterVars>>

InitAsof ==
    /\ \/ asof_in = GapTestArgs
       \/ \E T \in TradingKeySets, F \in SnapshotKeySets, c \in ShortFfillDays :
              asof_in = [trading_days_df |-> TradingDaysOf(T),
                         fundamentals_df |-> FundamentalsOf(F),
                         ffill_days |-> c]
    /\ asof_out = None
    /\ SplitIdle /\ LabelIdle /\ DbIdle /\ LaterIdle

NextAsof == AsofCall

SpecAsof == InitAsof /\ [][NextAsof]_vars


(***************************************************************************)
(* ml/labeling.py: compute_forward_returns                                 *)
(* A price row is [ticker, dt, close]; a label row is [ticker, dt, label]. *)
(* The float close[t+H] / close[t] - 1.0 is kept exact as the pair         *)
(* <<close[t+H] - close[t], close[t]>> (numerator, denominator); a label   *)
(* cell that is NaN is <<>>.                                               *)
(***************************************************************************)
\* df.sort_values(["ticker", "dt"])
SortPrices(s) ==
    LET tickers == [j \in DOMAIN s |-> s[j].ticker]
        dates == [j \in DOMAIN s |-> s[j].dt]
    IN  [i \in DOMAIN s |->
            s[CHOOSE j \in DOMAIN s : SortRank(tickers, dates, j) = i]]

\* df.groupby("ticker"): the positions of one ticker's rows, in frame order
GroupPositions(df, ticker) ==
    SelectSeq([j \in 1..Len(df) |-> j], LAMBDA j : df[j].ticker = ticker)

\* Mutant: close.shift(-horizon_days) over the whole frame, without groupby
ShiftedClose_NoGroup(df, i, horizon_days) ==
    IF i + horizon_days \in 1..Len(df)
    THEN Val(df[i + horizon_days].close)
    ELSE NaN

\* df.groupby("ticker")["close"].shift(-horizon_days) at frame row i: the close
\* horizon_days rows further in the same ticker's group, NaN past its end
ShiftedClose(df, i, horizon_days) ==
    LET g == GroupPositions(df, df[i].ticker)
        k == CHOOSE q \in 1..Len(g) : g[q] = i
    IN  IF k + horizon_days \in 1..Len(g)
        THEN Val(df[g[k + horizon_days]].close)
        ELSE NaN

\* shifted / close - 1.0, NaN when the shifted close is NaN
ForwardReturn(shifted, close) ==
    IF shifted = NaN THEN NaN ELSE <<shifted[1] - close, close>>

compute_forward_returns(prices_df, horizon_days) ==
    IF prices_df = <<>>
    THEN [status |-> "ok", rows |-> <<>>]
    ELSE LET df == SortPrices(prices_df)
             labelled == [i \in 1..Len(df) |->
                             [ticker |-> df[i].ticker, dt |-> df[i].dt,
                              label |-> ForwardReturn(
                                            ShiftedClose(df, i, horizon_days),
                                            df[i].close)]]
         IN  [status |-> "ok",
              rows |-> SelectSeq(labelled, LAMBDA r : r.label # NaN)]

\* the rows of a key set in (date, ticker) order, as a query by date returns them
RECURSIVE KeysByDate(_)
KeysByDate(S) ==
    IF S = {} THEN <<>>
    ELSE LET m == CHOOSE k \in S :
                      \A o \in S : KeyLeq(k[2], k[1], o[2], o[1])
         IN  <<m>> \o KeysByDate(S \ {m})

PricesOf(S, close) ==
    LET ks == KeysByDate(S)
    IN  [i \in 1..Len(ks) |->
            [ticker |-> ks[i][1], dt |-> ks[i][2], close |-> close[ks[i]]]]

\* the key sets of the price frames: at most MaxPriceRows rows
PriceKeySets == {X \in SUBSET Keys : Cardinality(X) <= MaxPriceRows}

LabelCall ==
    /\ label_in # None
    /\ label_out = None
    /\ label_out' = compute_forward_returns(label_in.prices_df,
                                            label_in.horizon_days)
    /\ UNCHANGED <<splitVars, asofVars, label_in, dbVars, laterVars>>

InitLabel ==
    /\ \E S \in PriceKeySets :
           \E c \in [S -> Closes], h \in 0..MaxHorizon :
               label_in = [prices_df |-> PricesOf(S, c), horizon_days |-> h]
    /\ label_out = None
    /\ SplitIdle /\ AsofIdle /\ DbIdle /\ LaterIdle

NextLabel == LabelCall

SpecLabel == InitLabel /\ [][NextLabel]_vars


(***************************************************************************)
(* The features table (db/models.py Feature) and the two writers of it:    *)
(* data/etl/compute_features.py _upsert_features and                       *)
(* ml/labeling.py upsert_labels_to_features.                               *)
(* The table maps a primary key <<ticker, dt>> to                          *)
(* [features_json, label_ret_1d]; label_ret_1d is NaN when NULL.           *)
(* A feature frame is a sequence of [ticker, dt, features_json]; a label   *)
(* frame is [column, rows] with rows a sequence of [ticker, dt, label].    *)
(* _upsert_features is one INSERT ... ON CONFLICT statement and a commit.  *)
(* upsert_labels_to_features reads the stored keys, then sends its UPDATEs *)
(* and commits; it locks nothing it read, so between the two halves other  *)
(* sessions commit.  label_runs holds, per session, the run that is        *)
(* between its halves: [call, labels_to_update].                           *)
(***************************************************************************)
KeyOf(row) == <<row.ticker, row.dt>>

\* Mutant: ON CONFLICT DO NOTHING, a stored row keeps its old features_json
UpsertFeatureRecord_DoNothing(table, row) ==
    LET k == KeyOf(row)
    IN  [q \in DOMAIN table \cup {k} |->
            IF q \in DOMAIN table THEN table[q]
            ELSE [features_json |-> row.features_json, label_ret_1d |-> NaN]]

\* Mutant: the stored row is replaced whole, its label is lost
UpsertFeatureRecord_Replace(table, row) ==
    LET k == KeyOf(row)
    IN  [q \in DOMAIN table \cup {k} |->
            IF q = k
            THEN [features_json |-> row.features_json, label_ret_1d |-> NaN]
            ELSE table[q]]

\* INSERT ... ON CONFLICT (ticker, dt) DO UPDATE SET features_json = excluded
\* for one record; a new row is inserted with label_ret_1d = None
UpsertFeatureRecord(table, row) ==
    LET k == KeyOf(row)
    IN  [q \in DOMAIN table \cup {k} |->
            IF q = k
            THEN [features_json |-> row.features_json,
                  label_ret_1d |-> IF k \in DOMAIN table
                                   THEN table[k].label_ret_1d
                                   ELSE NaN]
            ELSE table[q]]

\* PostgreSQL rejects an INSERT ... ON CONFLICT DO UPDATE whose VALUES hold
\* the same (ticker, dt) twice ("cannot affect row a second time")
HasDuplicateFeatureKeys(records) ==
    \E i, j \in 1..Len(records) :
        i < j /\ KeyOf(records[i]) = KeyOf(records[j])

\* insert(Feature).values(records).on_conflict_do_update(...): one statement
\* over all records; it writes every record or, on a repeated key, nothing
UpsertFeatureRecords(table, records) ==
    IF HasDuplicateFeatureKeys(records)
    THEN [status |-> "CardinalityViolation", table |-> table]
    ELSE LET keys == {KeyOf(records[i]) : i \in 1..Len(records)}
         IN  [status |-> "ok",
              table |->
                  [q \in DOMAIN table \cup keys |->
                      IF q \in keys
                      THEN UpsertFeatureRecord(
                               table,
                               records[CHOOSE i \in 1..Len(records) :
                                           KeyOf(records[i]) = q])[q]
                      ELSE table[q]]]

\* ticker_counts: rows of the frame per ticker
TickerCounts(df) ==
    [t \in {df[i].ticker : i \in 1..Len(df)} |->
        Cardinality({i \in 1..Len(df) : df[i].ticker = t})]

\* _upsert_features(df): the table afterwards and the returned dictionary
\* or the error of the statement, with nothing committed
upsert_features(table, df) ==
    IF df = <<>>
    THEN [table |-> table, ret |-> [status |-> "ok", value |-> <<>>]]
    ELSE LET written == UpsertFeatureRecords(table, df)
         IN  IF written.status # "ok"
             THEN [table |-> table,
                   ret |-> [status |-> written.status, value |-> <<>>]]
             ELSE [table |-> written.table,
                   ret |-> [status |-> "ok", value |-> TickerCounts(df)]]

\* select(Feature).where(Feature.ticker.in_(tickers), Feature.dt.in_(dates)):
\* the keys of the rows fetched into existing_features
ExistingFeatures(table, rows) ==
    LET tickers == {rows[i].ticker : i \in 1..Len(rows)}
        dates == {rows[i].dt : i \in 1..Len(rows)}
    IN  {k \in DOMAIN table : k[1] \in tickers /\ k[2] \in dates}

\* Mutant: every label row is kept, whether a feature row exists or not
LabelsToUpdate_All(rows, existing) == rows

\* labels_df[labels_df.apply(lambda row: (ticker, dt) in existing_features)]
LabelsToUpdate(rows, existing) ==
    SelectSeq(rows, LAMBDA r : KeyOf(r) \in existing)

\* Mutant: a label that is already set is kept
UpdateLabel_KeepExisting(table, row) ==
    [q \in DOMAIN table |->
        IF q = KeyOf(row) /\ table[q].label_ret_1d = NaN
        THEN [features_json |-> table[q].features_json,
              label_ret_1d |-> row.label]
        ELSE table[q]]

\* update(Feature).where(ticker == ..., dt == ...).values(label_ret_1d=value)
UpdateLabel(table, row) ==
    [q \in DOMAIN table |->
        IF q = KeyOf(row)
        THEN [features_json |-> table[q].features_json,
              label_ret_1d |-> row.label]
        ELSE table[q]]

RECURSIVE UpdateLabels(_, _)
UpdateLabels(table, rows) ==
    IF rows = <<>> THEN table
    ELSE UpdateLabels(UpdateLabel(table, Head(rows)), Tail(rows))

\* upsert_labels_to_features up to its UPDATEs (lines 80-105): the early
\* return, or the label rows kept for the UPDATEs.  The rows are filtered
\* against the keys this SELECT fetched; the session holds no lock on them.
SelectForLabels(table, labels_df, label_column) ==
    IF labels_df.rows = <<>>
    THEN [returned |-> TRUE, ret |-> [status |-> "ok", value |-> 0]]
    ELSE IF label_column # labels_df.column
    THEN [returned |-> TRUE, ret |-> [status |-> "ValueError", value |-> 0]]
    ELSE LET existing == ExistingFeatures(table, labels_df.rows)
             labels_to_update == LabelsToUpdate(labels_df.rows, existing)
         IN  IF existing = {} \/ labels_to_update = <<>>
             THEN [returned |-> TRUE, ret |-> [status |-> "ok", value |-> 0]]
             ELSE [returned |-> FALSE, labels_to_update |-> labels_to_update]

\* the rest of upsert_labels_to_features (lines 107-125): one UPDATE per kept
\* label row, run against the table as it is by then, the commit, and the
\* returned count
UpdateAndCommit(table, labels_to_update) ==
    [table |-> UpdateLabels(table, labels_to_update),
     ret |-> [status |-> "ok", value |-> Len(labels_to_update)]]

\* upsert_labels_to_features(db, labels_df, label_column) when no other
\* session commits during the call: the table afterwards and the returned
\* count, or the ValueError
upsert_labels_to_features(table, labels_df, label_column) ==
    LET selected == SelectForLabels(table, labels_df, label_column)
    IN  IF selected.returned
        THEN [table |-> table, ret |-> selected.ret]
        ELSE UpdateAndCommit(table, selected.labels_to_update)

DbKeys == DbTickers \X DbDays
DbKeySets == {X \in SUBSET DbKeys : Cardinality(X) <= MaxBatch}

\* the feature frame of one pipeline run over a key set: one row per key, in
\* (ticker, dt) order, each carrying the run's version v of the feature values
FeatureFrameOf(S, v) ==
    LET ks == KeysInOrder(S)
    IN  [i \in 1..Len(ks) |->
            [ticker |-> ks[i][1], dt |-> ks[i][2], features_json |-> v]]

\* the H-row forward return stored for a key, as compute_forward_returns gives it
ReturnOf(k, column) == <<10 * column, 100>>

\* a label frame of one horizon over a key set, in (ticker, dt) order
LabelFrameOf(S, column) ==
    LET ks == KeysInOrder(S)
    IN  [column |-> column,
         rows |-> [i \in 1..Len(ks) |->
                      [ticker |-> ks[i][1], dt |-> ks[i][2],
                       label |-> ReturnOf(ks[i], column)]]]

\* the frames the two writers are called with
FeatureFrames == {FeatureFrameOf(S, v) : S \in DbKeySets, v \in FeatureValues}
LabelFrames == {LabelFrameOf(S, column) : S \in DbKeySets, column \in LabelColumns}

UpsertFeatures ==
    \E df \in FeatureFrames :
        LET r == upsert_features(features, df)
        IN  /\ features' = r.table
            /\ db_ret' = r.ret
            /\ db_call' = [op |-> "_upsert_features", df |-> df]
            /\ UNCHANGED <<label_runs, splitVars, asofVars, labelVars,
                           laterVars>>

\* upsert_labels_to_features is called in a free session and runs up to
\* its first wait on the database after the SELECT: it returns early, or it
\* is left in its session with the rows it is going to update
UpsertLabels ==
    \E s \in Sessions, labels_df \in LabelFrames, label_column \in LabelColumns :
        LET call == [op |-> "upsert_labels_to_features",
                     labels_df |-> labels_df,
                     label_column |-> label_column]
            selected == SelectForLabels(features, labels_df, label_column)
        IN  /\ label_runs[s] = None
            /\ IF selected.returned
               THEN /\ db_call' = call
                    /\ db_ret' = selected.ret
                    /\ UNCHANGED label_runs
               ELSE /\ label_runs' =
                          [label_runs EXCEPT ![s] =
                              [call |-> call,
                               labels_to_update |-> selected.labels_to_update]]
                    /\ UNCHANGED <<db_call, db_ret>>
            /\ UNCHANGED <<features, splitVars, asofVars, labelVars,
                           laterVars>>

\* a label run that waited after its SELECT sends its UPDATEs, commits and
\* returns
UpdateLabelsAndCommit ==
    \E s \in Sessions :
        /\ label_runs[s] # None
        /\ LET r == UpdateAndCommit(features, label_runs[s].labels_to_update)
           IN  /\ features' = r.table
               /\ db_ret' = r.ret
               /\ db_call' = label_runs[s].call
        /\ label_runs' = [label_runs EXCEPT ![s] = None]
        /\ UNCHANGED <<splitVars, asofVars, labelVars, laterVars>>

Init ==
    /\ features = <<>>
    /\ db_call = None
    /\ db_ret = None
    /\ label_runs = [s \in Sessions |-> None]
    /\ SplitIdle /\ AsofIdle /\ LabelIdle /\ LaterIdle

Next == UpsertFeatures \/ UpsertLabels \/ UpdateLabelsAndCommit

Spec == Init /\ [][Next]_vars


(***************************************************************************)
(* ml/labeling.py: compute_and_upsert_labels on the features table.        *)
(* The prices table is the same during these runs: one row per ticker and  *)
(* day of 0..MaxDay.  A date filter is NaN when the argument is None; the  *)
(* ticker filter is the empty set when the argument is None or empty.      *)
(***************************************************************************)
\* the close of a stored price row
StoredCloseOf(k) == 100 * k[1] + 5 * k[1] * k[2] * (k[2] + 1)

StoredPrices == PricesOf(Keys, [k \in Keys |-> StoredCloseOf(k)])

\* select(Price) with the filters that are set
FetchPrices(prices, tickers, start_date, end_date) ==
    SelectSeq(prices,
              LAMBDA p : /\ tickers # {} => p.ticker \in tickers
                         /\ start_date # NaN => p.dt >= start_date[1]
                         /\ end_date # NaN => p.dt <= end_date[1])

\* the filters and horizons of the labelling runs
LabelTickerFilters == {{}, {1}}
LabelStartDates == {NaN, Val(1)}
LabelEndDates == {NaN, Val(2)}

LabelRunArgs ==
    [tickers : LabelTickerFilters, start_date : LabelStartDates,
     end_date : LabelEndDates, horizon_days : 1..MaxHorizon]

\* the first half of compute_and_upsert_labels, which does not depend on
\* the features table: the fetched prices and the labels computed from them
\* (none when no price was fetched), for each run
ComputedLabels ==
    {[args |-> a,
      prices_df |-> FetchPrices(StoredPrices, a.tickers, a.start_date,
                                a.end_date),
      labels_df |->
          IF FetchPrices(StoredPrices, a.tickers, a.start_date,
                         a.end_date) = <<>>
          THEN <<>>
          ELSE compute_forward_returns(
                   FetchPrices(StoredPrices, a.tickers, a.start_date,
                               a.end_date),
                   a.horizon_days).rows] : a \in LabelRunArgs}

\* compute_and_upsert_labels up to the UPDATEs of upsert_labels_to_features:
\* the SELECT of the prices, the labels computed from them, and the SELECT
\* of the feature rows
SelectForComputedLabels(table, a) ==
    LET computed == CHOOSE c \in ComputedLabels : c.args = a
    IN  IF computed.prices_df = <<>>
        THEN [returned |-> TRUE, ret |-> [status |-> "ok", value |-> 0]]
        ELSE IF computed.labels_df = <<>>
        THEN [returned |-> TRUE, ret |-> [status |-> "ok", value |-> 0]]
        ELSE SelectForLabels(
                 table,
                 [column |-> a.horizon_days, rows |-> computed.labels_df],
                 a.horizon_days)

\* compute_and_upsert_labels when no other session commits during the call:
\* the table afterwards and the returned count
compute_and_upsert_labels(table, a) ==
    LET selected == SelectForComputedLabels(table, a)
    IN  IF selected.returned
        THEN [table |-> table, ret |-> selected.ret]
        ELSE UpdateAndCommit(table, selected.labels_to_update)

\* compute_and_upsert_labels is called in a free session and runs up to the
\* UPDATEs: it returns early, or it is left in its session with the rows it
\* is going to update; UpdateLabelsAndCommit is the rest of the call
ComputeAndUpsertLabels ==
    \E s \in Sessions, a \in LabelRunArgs :
        LET call == [op |-> "compute_and_upsert_labels",
                     tickers |-> a.tickers,
                     start_date |-> a.start_date,
                     end_date |-> a.end_date,
                     horizon_days |-> a.horizon_days]
            selected == SelectForComputedLabels(features, a)
        IN  /\ label_runs[s] = None
            /\ IF selected.returned
               THEN /\ db_call' = call
                    /\ db_ret' = selected.ret
                    /\ UNCHANGED label_runs
               ELSE /\ label_runs' =
                          [label_runs EXCEPT ![s] =
                              [call |-> call,
                               labels_to_update |-> selected.labels_to_update]]
                    /\ UNCHANGED <<db_call, db_ret>>
            /\ UNCHANGED <<features, splitVars, asofVars, labelVars,
                           laterVars>>

NextHorizons ==
    UpsertFeatures \/ ComputeAndUpsertLabels \/ UpdateLabelsAndCommit

SpecHorizons == Init /\ [][NextHorizons]_vars


(***************************************************************************)
(* The preds table (db/models.py Pred) and ml/inference.py                 *)
(* upsert_predictions.  The table maps a primary key                       *)
(* <<ticker, dt, horizon>> to [yhat, yhat_std, prob_up]; a prediction      *)
(* frame is a sequence of [ticker, dt, horizon, yhat, yhat_std, prob_up].  *)
(* Floats are kept in thousandths.                                         *)
(***************************************************************************)
MaxPredRows == 2     \* rows of a frame given to upsert_predictions

\* the keys of the prediction frames: two horizons of one ticker and date,
\* another date and another ticker
PredKeys == {<<1, 0, "1d">>, <<1, 0, "5d">>, <<1, 1, "1d">>, <<2, 0, "1d">>}

\* the predictions of two model versions
PredValues ==
    {[yhat |-> 10, yhat_std |-> 5, prob_up |-> 600],
     [yhat |-> 20, yhat_std |-> 8, prob_up |-> 700]}

PredKeyOf(rec) == <<rec.ticker, rec.dt, rec.horizon>>

\* PostgreSQL rejects an INSERT ... ON CONFLICT DO UPDATE whose VALUES hold
\* the same conflict key twice ("cannot affect row a second time")
HasDuplicateKeys(records) ==
    \E i, j \in 1..Len(records) :
        i < j /\ PredKeyOf(records[i]) = PredKeyOf(records[j])

\* Mutant: the conflict target is (ticker, dt), so the stored predictions of
\* the same ticker and date under another horizon give way to the new one
UpsertPredRecord_NoHorizon(table, rec) ==
    LET k == PredKeyOf(rec)
        kept == {q \in DOMAIN table : ~(q[1] = k[1] /\ q[2] = k[2])}
    IN  [q \in kept \cup {k} |->
            IF q = k
            THEN [yhat |-> rec.yhat, yhat_std |-> rec.yhat_std,
                  prob_up |-> rec.prob_up]
            ELSE table[q]]

\* INSERT ... ON CONFLICT (ticker, dt, horizon) DO UPDATE SET yhat, yhat_std,
\* prob_up = excluded, for one record
UpsertPredRecord(table, rec) ==
    LET k == PredKeyOf(rec)
    IN  [q \in DOMAIN table \cup {k} |->
            IF q = k
            THEN [yhat |-> rec.yhat, yhat_std |-> rec.yhat_std,
                  prob_up |-> rec.prob_up]
            ELSE table[q]]

RECURSIVE UpsertPredRecords(_, _)
UpsertPredRecords(table, records) ==
    IF records = <<>> THEN table
    ELSE UpsertPredRecords(UpsertPredRecord(table, Head(records)),
                           Tail(records))

\* upsert_predictions(db, preds_df): the table afterwards and the returned
\* number of records, or the error of the statement
upsert_predictions(table, preds_df) ==
    IF preds_df = <<>>
    THEN [table |-> table, ret |-> [status |-> "ok", value |-> 0]]
    ELSE IF HasDuplicateKeys(preds_df)
    THEN [table |-> table,
          ret |-> [status |-> "CardinalityViolation", value |-> 0]]
    ELSE [table |-> UpsertPredRecords(table, preds_df),
          ret |-> [status |-> "ok", value |-> Len(preds_df)]]

\* a prediction frame over a sequence of keys, each row carrying the values v
PredFrameOf(ks, v) ==
    [i \in 1..Len(ks) |->
        [ticker |-> ks[i][1], dt |-> ks[i][2], horizon |-> ks[i][3],
         yhat |-> v.yhat, yhat_std |-> v.yhat_std, prob_up |-> v.prob_up]]

\* the frames upsert_predictions is called with
PredFrames ==
    {PredFrameOf(ks, v) :
        ks \in UNION {[1..n -> PredKeys] : n \in 0..MaxPredRows},
        v \in PredValues}

UpsertPredictions ==
    \E preds_df \in PredFrames :
        LET r == upsert_predictions(preds, preds_df)
        IN  /\ preds' = r.table
            /\ pred_ret' = r.ret
            /\ pred_call' = [preds_df |-> preds_df]
            /\ UNCHANGED <<splitVars, asofVars, labelVars, dbVars, sentVars,
                           cleanVars, compVars, weightsVars, techVars,
                   lastVars>>

InitPred ==
    /\ PredIdle
    /\ SplitIdle /\ AsofIdle /\ LabelIdle /\ DbIdle
    /\ SentIdle /\ CleanIdle /\ CompIdle /\ WeightsIdle /\ TechIdle /\ LastIdle

NextPred == UpsertPredictions

SpecPred == InitPred /\ [][NextPred]_vars


(***************************************************************************)
(* data/features/sentiment.py: aggregate_news_sentiment                    *)
(* A spine row is [ticker, dt] with dt a day; a news row is                *)
(* [ticker, dt, sent_comp, url] with dt a timestamp in hours (24 * day +   *)
(* hour); an output row is [ticker, dt, sent_mean_comp, burst_3d,          *)
(* burst_7d, sent_ma_7d].  sent_comp is in tenths; a mean is the exact     *)
(* fraction <<numerator, denominator>> in lowest terms.                    *)
(***************************************************************************)
MaxSentDay == 3      \* spine and news days are drawn from 0..MaxSentDay
MaxNews == 2         \* rows of the news frame

\* the urls of the news items
Urls == {1, 2}

RECURSIVE GCD(_, _)
GCD(a, b) == IF b = 0 THEN a ELSE GCD(b, a % b)

Abs(n) == IF n < 0 THEN 0 - n ELSE n

\* the fraction n / d in lowest terms
RatNorm(n, d) ==
    LET g == GCD(Abs(n), d)
    IN  <<n \div g, d \div g>>

RatAdd(x, y) == RatNorm(x[1] * y[2] + y[1] * x[2], x[2] * y[2])

RatZero == <<0, 1>>

RECURSIVE SumSeq(_)
SumSeq(s) == IF s = <<>> THEN 0 ELSE Head(s) + SumSeq(Tail(s))

RECURSIVE RatSumSeq(_)
RatSumSeq(s) == IF s = <<>> THEN RatZero ELSE RatAdd(Head(s), RatSumSeq(Tail(s)))

\* news_df["dt"].dt.date: the day of a timestamp
NewsDate(dt) == dt \div 24

\* Mutant: no deduplication, every news row is aggregated
DropDuplicates_None(news_df) == news_df

\* news_df.drop_duplicates(subset=["ticker", "url"], keep="first")
DropDuplicates(news_df) ==
    LET kept == SelectSeq([j \in 1..Len(news_df) |-> j],
                    LAMBDA i : ~\E j \in 1..(i - 1) :
                                   /\ news_df[j].ticker = news_df[i].ticker
                                   /\ news_df[j].url = news_df[i].url)
    IN  [k \in 1..Len(kept) |-> news_df[kept[k]]]

\* news_df.groupby(["ticker", "date"]): the sent_comp of one group, in frame
\* order
NewsGroup(news_df, ticker, date) ==
    LET g == SelectSeq(news_df,
                 LAMBDA r : r.ticker = ticker /\ NewsDate(r.dt) = date)
    IN  [k \in 1..Len(g) |-> g[k].sent_comp]

\* result.merge(daily_agg, on=["ticker", "date"], how="left") for one spine
\* row: mean and count of the row's group, missing when it has no group
MergeDailyAgg(row, news_df) ==
    LET g == NewsGroup(news_df, row.ticker, row.dt)
    IN  [ticker |-> row.ticker, dt |-> row.dt,
         sent_mean_comp |-> IF g = <<>> THEN NaN
                            ELSE Val(RatNorm(SumSeq(g), Len(g))),
         headline_count |-> IF g = <<>> THEN NaN ELSE Val(Len(g))]

\* Mutant: the missing cells of the merge are left as they are
FillNa_Skip(cell, v) == cell

\* Series.fillna(v) on one cell
FillNa(cell, v) == IF cell = NaN THEN Val(v) ELSE cell

\* result.sort_values(["ticker", "date"])
SortSentiment(s) ==
    LET tickers == [j \in DOMAIN s |-> s[j].ticker]
        dates == [j \in DOMAIN s |-> s[j].dt]
    IN  [i \in DOMAIN s |->
            s[CHOOSE j \in DOMAIN s : SortRank(tickers, dates, j) = i]]

\* Mutant: a window centred on the row instead of a trailing one
RollingWindow_Centered(g, k, window) ==
    SubSeq(g, Max(1, k - window \div 2), Min(Len(g), k + window \div 2))

\* Mutant: rolling over the whole frame, without the grouping by ticker
RollingGroup_Frame(df, ticker) == [j \in 1..Len(df) |-> j]

\* the frame positions of one ticker's group, in frame order
RollingGroup(df, ticker) == GroupPositions(df, ticker)

\* rolling(window=window, min_periods=1) at row k of a group: the group's
\* rows k - window + 1 .. k, cut at the start of the group
RollingWindow(g, k, window) == SubSeq(g, Max(1, k - window + 1), k)

\* the non-missing observations of a window of cells
Observations(cells) ==
    LET obs == SelectSeq(cells, LAMBDA c : c # NaN)
    IN  [k \in 1..Len(obs) |-> obs[k][1]]

\* .sum() of a rolling window: missing when it holds no observation
RollingSum(cells) ==
    LET obs == Observations(cells)
    IN  IF obs = <<>> THEN NaN ELSE Val(SumSeq(obs))

\* .mean() of a rolling window of fractions
RollingMean(cells) ==
    LET obs == Observations(cells)
    IN  IF obs = <<>> THEN NaN
        ELSE LET t == RatSumSeq(obs)
             IN  Val(RatNorm(t[1], t[2] * Len(obs)))

\* one row of the frame after the rolling features of its ticker's group
RolledRow(result, i) ==
    LET g == RollingGroup(result, result[i].ticker)
        k == CHOOSE q \in 1..Len(g) : g[q] = i
        w3 == RollingWindow(g, k, 3)
        w7 == RollingWindow(g, k, 7)
    IN  [ticker |-> result[i].ticker, dt |-> result[i].dt,
         sent_mean_comp |-> result[i].sent_mean_comp,
         burst_3d |-> RollingSum([j \in 1..Len(w3) |->
                                     result[w3[j]].headline_count]),
         burst_7d |-> RollingSum([j \in 1..Len(w7) |->
                                     result[w7[j]].headline_count]),
         sent_ma_7d |-> RollingMean([j \in 1..Len(w7) |->
                                       result[w7[j]].sent_mean_comp])]

\* astype(int) raises on a frame whose burst column holds a missing value
AsTypeInt(rows) ==
    IF \E i \in 1..Len(rows) : rows[i].burst_3d = NaN \/ rows[i].burst_7d = NaN
    THEN [status |-> "IntCastingNaNError", rows |-> <<>>]
    ELSE [status |-> "ok", rows |-> rows]

aggregate_news_sentiment(news_df, trading_days_df) ==
    IF trading_days_df = <<>>
    THEN [status |-> "ok", rows |-> <<>>]
    ELSE IF news_df = <<>>
    THEN [status |-> "ok",
          rows |-> [i \in 1..Len(trading_days_df) |->
                       [ticker |-> trading_days_df[i].ticker,
                        dt |-> trading_days_df[i].dt,
                        sent_mean_comp |-> Val(RatZero),
                        burst_3d |-> Val(0), burst_7d |-> Val(0),
                        sent_ma_7d |-> Val(RatZero)]]]
    ELSE LET news == DropDuplicates(news_df)
             merged == [i \in 1..Len(trading_days_df) |->
                           MergeDailyAgg(trading_days_df[i], news)]
             filled == [i \in 1..Len(merged) |->
                           [merged[i] EXCEPT
                               !.sent_mean_comp = FillNa(@, RatZero),
                               !.headline_count = FillNa(@, 0)]]
             result == SortSentiment(filled)
         IN  AsTypeInt([i \in 1..Len(result) |-> RolledRow(result, i)])

\* the sent_comp of the news rows, by position in the frame
NewsSentiments == <<5, 7, -3, 8, 6>>
SentAt(i) == NewsSentiments[((i - 1) % Len(NewsSentiments)) + 1]

\* the hour of the news rows, by position in the frame: 10:00, 14:00, ...
HourAt(i) == (10 + 4 * (i - 1)) % 24

\* a news frame over a sequence of <<ticker, day, url>>
NewsFrameOf(items) ==
    [i \in 1..Len(items) |->
        [ticker |-> items[i][1], dt |-> 24 * items[i][2] + HourAt(i),
         sent_comp |-> SentAt(i), url |-> items[i][3]]]

\* a spine over the days D1 of ticker 1 and D2 of ticker 2, in date order
SpineOf(D1, D2) ==
    LET ks == KeysByDate(({1} \X D1) \cup ({2} \X D2))
    IN  [i \in 1..Len(ks) |-> [ticker |-> ks[i][1], dt |-> ks[i][2]]]

NewsItems == Tickers \X (0..MaxSentDay) \X Urls

\* test_sentiment_burst_counts: one ticker, ten days, min(day, 3) headlines
\* on day 1, 2, ..., each with a url of its own and sent_comp 0.5
BurstTestDays == 10
BurstTestNews ==
    [n \in 1..(3 * BurstTestDays - 3) |->
        LET day == IF n = 1 THEN 1 ELSE IF n <= 3 THEN 2 ELSE 3 + (n - 4) \div 3
            i == IF n = 1 THEN 0 ELSE IF n <= 3 THEN n - 2 ELSE (n - 4) % 3
        IN  [ticker |-> 1, dt |-> 24 * day + 10 + i, sent_comp |-> 5,
             url |-> 10 * day + i]]
BurstTestArgs ==
    [news_df |-> BurstTestNews,
     trading_days_df |-> [d \in 1..BurstTestDays |-> [ticker |-> 1, dt |-> d]]]

SentCall ==
    /\ sent_in # None
    /\ sent_out = None
    /\ sent_out' = aggregate_news_sentiment(sent_in.news_df,
                                            sent_in.trading_days_df)
    /\ UNCHANGED <<splitVars, asofVars, labelVars, dbVars, predVars, sent_in,
                   cleanVars, compVars, weightsVars, techVars,
                   lastVars>>

InitSent ==
    /\ \/ sent_in = BurstTestArgs
       \/ \E D1 \in SUBSET (0..MaxSentDay), D2 \in {{}, {0, 1}} :
              \E n \in 0..MaxNews :
                  \E items \in [1..n -> NewsItems] :
                      sent_in = [news_df |-> NewsFrameOf(items),
                                 trading_days_df |-> SpineOf(D1, D2)]
    /\ sent_out = None
    /\ SplitIdle /\ AsofIdle /\ LabelIdle /\ DbIdle
    /\ PredIdle /\ CleanIdle /\ CompIdle /\ WeightsIdle /\ TechIdle /\ LastIdle

NextSent == SentCall

SpecSent == InitSent /\ [][NextSent]_vars


(***************************************************************************)
(* data/features/joiner.py: clean_features, _fill_nans                     *)
(* A frame row is a function from column names to cells; the frames have   *)
(* the key columns ticker and dt, the numeric column metric and the text   *)
(* column note.  nan_threshold is a percentage.  Any cell can be missing,  *)
(* those of the key columns included.                                      *)
(***************************************************************************)
MaxCleanDay == 2     \* dates of the frame are drawn from 0..MaxCleanDay
MaxCleanRows == 5    \* rows of the frame given to clean_features

\* nan_threshold: the default 0.5 and the 0.8 of the pipeline
NanThresholdPcts == {50, 80}

key_cols == {"ticker", "dt"}
FrameColumns == {"ticker", "dt", "metric", "note"}

\* df.select_dtypes(include=["number"]): metric is float64, note is object
NumericColumns == {"metric"}

\* df.isna().sum() of one column
NanCount(rows, c) == Cardinality({i \in 1..Len(rows) : rows[i][c] = NaN})

\* Mutant: a column whose missing-rate equals the threshold is dropped too
ExceedsThreshold_Inclusive(nan_count, n, threshold_pct) ==
    100 * nan_count >= threshold_pct * n

\* nan_ratio > nan_threshold, with nan_ratio = nan_count / len(df)
ExceedsThreshold(nan_count, n, threshold_pct) ==
    100 * nan_count > threshold_pct * n

\* Mutant: a key column above the threshold is dropped like any other
ColsToDrop_KeysToo(rows, columns, threshold_pct) ==
    {c \in columns :
        ExceedsThreshold(NanCount(rows, c), Len(rows), threshold_pct)}

\* cols_to_drop: the columns above the threshold, key columns excluded
ColsToDrop(rows, columns, threshold_pct) ==
    {c \in columns :
        ExceedsThreshold(NanCount(rows, c), Len(rows), threshold_pct)}
    \ key_cols

\* df.drop(columns=cols_to_drop)
DropColumns(rows, kept) ==
    [i \in 1..Len(rows) |-> [c \in kept |-> rows[i][c]]]

\* df.sort_values(["ticker", "dt"]); a missing key sorts after every value
\* (na_position="last")
SortFrame(rows) ==
    LET tickers == [j \in DOMAIN rows |->
                       IF rows[j]["ticker"] = NaN THEN Cardinality(Tickers) + 1
                       ELSE rows[j]["ticker"][1]]
        dates == [j \in DOMAIN rows |->
                     IF rows[j]["dt"] = NaN THEN MaxCleanDay + 1
                     ELSE rows[j]["dt"][1]]
    IN  [i \in DOMAIN rows |->
            rows[CHOOSE j \in DOMAIN rows : SortRank(tickers, dates, j) = i]]

\* Mutant: fill over the whole frame, without the grouping by ticker
FillGroup_Frame(rows, i) == [j \in 1..Len(rows) |-> j]

\* df.groupby("ticker"): the frame positions of the group of row i; a row
\* whose ticker is missing is in no group (dropna=True)
FillGroup(rows, i) ==
    IF rows[i]["ticker"] = NaN THEN <<>>
    ELSE SelectSeq([j \in 1..Len(rows) |-> j],
                   LAMBDA j : rows[j]["ticker"] = rows[i]["ticker"])

\* df[col] = df.groupby("ticker")[col].ffill(): a missing cell takes the
\* last non-missing cell before it in its group; a row that is in no group
\* gets a missing cell, whatever it held
GroupFfill(rows, col) ==
    [i \in 1..Len(rows) |->
        LET g == FillGroup(rows, i)
            k == CHOOSE q \in 1..Len(g) : g[q] = i
            seen == {q \in 1..k : rows[g[q]][col] # NaN}
        IN  [rows[i] EXCEPT ![col] =
                IF g = <<>> THEN NaN
                ELSE IF seen = {} THEN NaN
                ELSE rows[g[CHOOSE q \in seen : \A o \in seen : o <= q]][col]]]

\* df[col] = df.groupby("ticker")[col].bfill(): a missing cell takes the
\* first non-missing cell after it in its group; a row that is in no group
\* gets a missing cell
GroupBfill(rows, col) ==
    [i \in 1..Len(rows) |->
        LET g == FillGroup(rows, i)
            k == CHOOSE q \in 1..Len(g) : g[q] = i
            ahead == {q \in k..Len(g) : rows[g[q]][col] # NaN}
        IN  [rows[i] EXCEPT ![col] =
                IF g = <<>> THEN NaN
                ELSE IF ahead = {} THEN NaN
                ELSE rows[g[CHOOSE q \in ahead : \A o \in ahead : q <= o]][col]]]

\* df[col].fillna(0)
FillZero(rows, col) ==
    [i \in 1..Len(rows) |-> [rows[i] EXCEPT ![col] = FillNa(@, 0)]]

\* the loop of _fill_nans over fill_cols, then the zero fill
RECURSIVE FillColumns(_, _)
FillColumns(rows, fill_cols) ==
    IF fill_cols = {} THEN rows
    ELSE LET col == CHOOSE c \in fill_cols : TRUE
         IN  FillColumns(
                 FillZero(GroupBfill(GroupFfill(rows, col), col), col),
                 fill_cols \ {col})

fill_nans(rows, columns) ==
    LET fill_cols == (NumericColumns \cap columns) \ key_cols
    IN  IF fill_cols = {} THEN rows
        ELSE FillColumns(SortFrame(rows), fill_cols)

clean_features(df, threshold_pct) ==
    IF df.rows = <<>>
    THEN [status |-> "ok", columns |-> df.columns, rows |-> df.rows]
    ELSE LET kept == df.columns \ ColsToDrop(df.rows, df.columns, threshold_pct)
         IN  IF (NumericColumns \cap kept) \ key_cols # {}
                /\ ~(key_cols \subseteq kept)
             THEN \* sort_values(["ticker", "dt"]) on a frame without them
                  [status |-> "KeyError", columns |-> kept, rows |-> <<>>]
             ELSE [status |-> "ok", columns |-> kept,
                   rows |-> fill_nans(DropColumns(df.rows, kept), kept)]

\* each cell carries a value of its own, which tells the rows apart
MetricOf(ticker, dt) == 10 * ticker + dt
NoteOf(ticker, dt) == 100 + 10 * ticker + dt

\* the frame over a key set, in date order, with the metric missing on the
\* keys M and the note missing on the keys N
CleanFrameOf(S, M, N) ==
    LET ks == KeysByDate(S)
    IN  [columns |-> FrameColumns,
         rows |-> [i \in 1..Len(ks) |->
                      [c \in FrameColumns |->
                          IF c = "ticker" THEN Val(ks[i][1])
                          ELSE IF c = "dt" THEN Val(ks[i][2])
                          ELSE IF c = "metric"
                          THEN IF ks[i] \in M THEN NaN
                               ELSE Val(MetricOf(ks[i][1], ks[i][2]))
                          ELSE IF ks[i] \in N THEN NaN
                               ELSE Val(NoteOf(ks[i][1], ks[i][2]))]]]

CleanKeySets ==
    {X \in SUBSET (Tickers \X (0..MaxCleanDay)) : Cardinality(X) <= MaxCleanRows}

CleanCall ==
    /\ clean_in # None
    /\ clean_out = None
    /\ clean_out' = clean_features(clean_in.df, clean_in.nan_threshold)
    /\ UNCHANGED <<splitVars, asofVars, labelVars, dbVars, predVars, sentVars,
                   clean_in, compVars, weightsVars, techVars,
                   lastVars>>

InitClean ==
    /\ \E S \in CleanKeySets, p \in NanThresholdPcts :
           \E M \in SUBSET S, N \in SUBSET S :
               clean_in = [df |-> CleanFrameOf(S, M, N), nan_threshold |-> p]
    /\ clean_out = None
    /\ SplitIdle /\ AsofIdle /\ LabelIdle /\ DbIdle
    /\ PredIdle /\ SentIdle /\ CompIdle /\ WeightsIdle /\ TechIdle /\ LastIdle

NextClean == CleanCall

SpecClean == InitClean /\ [][NextClean]_vars

\* frames whose key columns have missing cells.  The keys of a frame that
\* miss a cell of one column are none, all, or all but the first in date
\* order, so that the missing-rate of the column is 0, 1, or (n - 1) / n.
KeyGaps(S) ==
    IF S = {} THEN {{}}
    ELSE {{}, S, S \ {KeysByDate(S)[1]}}

\* the frame of CleanFrameOf with the ticker missing on the keys T and the
\* date missing on the keys D
CleanFrameWithGaps(S, M, N, T, D) ==
    LET ks == KeysByDate(S)
        df == CleanFrameOf(S, M, N)
    IN  [columns |-> df.columns,
         rows |-> [i \in 1..Len(ks) |->
                      [c \in df.columns |->
                          IF c = "ticker" /\ ks[i] \in T THEN NaN
                          ELSE IF c = "dt" /\ ks[i] \in D THEN NaN
                          ELSE df.rows[i][c]]]]

\* the calls of InitClean, and calls on frames with gaps in the key columns
InitCleanKeys ==
    /\ \E S \in CleanKeySets, p \in NanThresholdPcts :
           \E T \in KeyGaps(S), D \in KeyGaps(S) :
               \E M \in (IF T = {} THEN SUBSET S ELSE KeyGaps(S)),
                  N \in (IF T = {} /\ D = {} THEN SUBSET S ELSE KeyGaps(S)) :
                   clean_in = [df |-> CleanFrameWithGaps(S, M, N, T, D),
                               nan_threshold |-> p]
    /\ clean_out = None
    /\ SplitIdle /\ AsofIdle /\ LabelIdle /\ DbIdle
    /\ PredIdle /\ SentIdle /\ CompIdle /\ WeightsIdle /\ TechIdle /\ LastIdle

SpecCleanKeys == InitCleanKeys /\ [][NextClean]_vars


(***************************************************************************)
(* core/config.py: get_composite_weights                                   *)
(* The text of settings.COMPOSITE_WEIGHTS is given by what json.loads      *)
(* makes of it: [kind, members], with kind "invalid" for a text that is    *)
(* not JSON, "object" for a mapping (members: its keys and values) and     *)
(* "array", "number", "string", "null", "bool" for the other JSON values.  *)
(* A weight is the exact fraction <<numerator, denominator>>.              *)
(***************************************************************************)
WeightKeys == {"quality", "valuation", "momentum", "sentiment"}

\* the weights a mapping may hold: 0.25 and 0.5
WeightValues == {<<1, 4>>, <<1, 2>>}

DefaultWeight == <<1, 4>>

\* the texts that are a JSON mapping: any of the four keys and a fifth one
ObjectTexts ==
    {[kind |-> "object", members |-> m] :
        m \in UNION {[K -> WeightValues] : K \in SUBSET (WeightKeys \cup {"extra"})}}

\* the texts that are JSON but no mapping, and the texts that are not JSON
OtherTexts ==
    {[kind |-> k, members |-> <<>>] :
        k \in {"array", "number", "string", "null", "bool", "invalid"}}

\* json.loads(text)
JsonLoads(text) ==
    IF text.kind = "invalid"
    THEN [status |-> "JSONDecodeError", value |-> text]
    ELSE [status |-> "ok", value |-> text]

\* weights.get(...) on a value that is no dict raises AttributeError, which
\* the except clause (json.JSONDecodeError) lets through
NonMappingOutcome == [status |-> "AttributeError", value |-> <<>>]

get_composite_weights(text) ==
    LET parsed == JsonLoads(text)
    IN  IF parsed.status = "JSONDecodeError"
        THEN [status |-> "ok", value |-> [k \in WeightKeys |-> DefaultWeight]]
        ELSE IF parsed.value.kind # "object"
        THEN NonMappingOutcome
        ELSE [status |-> "ok",
              value |-> [k \in WeightKeys |->
                            IF k \in DOMAIN parsed.value.members
                            THEN parsed.value.members[k]
                            ELSE DefaultWeight]]

WeightsCall ==
    /\ weights_in # None
    /\ weights_out = None
    /\ weights_out' = get_composite_weights(weights_in.COMPOSITE_WEIGHTS)
    /\ UNCHANGED <<splitVars, asofVars, labelVars, dbVars, predVars, sentVars,
                   cleanVars, compVars, weights_in, techVars,
                   lastVars>>

InitWeights ==
    /\ \E text \in ObjectTexts \cup OtherTexts :
           weights_in = [COMPOSITE_WEIGHTS |-> text]
    /\ weights_out = None
    /\ SplitIdle /\ AsofIdle /\ LabelIdle /\ DbIdle
    /\ PredIdle /\ SentIdle /\ CleanIdle /\ CompIdle /\ TechIdle /\ LastIdle

NextWeights == WeightsCall

SpecWeights == InitWeights /\ [][NextWeights]_vars


(***************************************************************************)
(* data/features/composite.py: compute_composite_scores                    *)
(* A frame is [columns, rows]; a row is a function from the frame's        *)
(* columns to cells.  Scores are exact fractions.                          *)
(***************************************************************************)
MaxCompRows == 3     \* rows of the frame given to compute_composite_scores

\* the dates of these frames
CompDays == {0, 1}

\* the candidate source columns of the four sub-scores
QualityCandidates == {"roe", "roce", "opm", "npm"}
ValuationCandidates == {"pe_vs_sector", "pb_vs_sector"}
MomentumCandidates == {"momentum_20", "momentum_60", "rsi_14"}
SentimentCandidates == {"sent_mean_comp", "sent_ma_7d"}

\* Mutant: a dimension without source columns scores 0
NeutralScore_Zero == <<0, 1>>

\* df["..._score"] = 0.5
NeutralScore == <<1, 2>>

RatLess(x, y) == x[1] * y[2] < y[1] * x[2]

RatMul(x, y) == RatNorm(x[1] * y[1], x[2] * y[2])

\* the cell of a source column as the fraction that is ranked; rsi_14 is
\* ranked as rsi_normalized = rsi_14 / 100.0
SourceCell(row, col) ==
    IF row[col] = NaN THEN NaN
    ELSE IF col = "rsi_14" THEN Val(RatNorm(row[col][1], 100))
    ELSE Val(RatNorm(row[col][1], 1))

\* _scale_to_01 at row i: the percentile rank (average rank over the count)
\* of the cell among the non-missing cells of its date, 0.5 for a missing
\* cell, clipped to [0, 1]
ScaleTo01(rows, col, i) ==
    LET cell == SourceCell(rows[i], col)
        G == {j \in 1..Len(rows) :
                 rows[j]["dt"] = rows[i]["dt"] /\ SourceCell(rows[j], col) # NaN}
        less == Cardinality({j \in G :
                    RatLess(SourceCell(rows[j], col)[1], cell[1])})
        equal == Cardinality({j \in G : SourceCell(rows[j], col) = cell})
        ranked == IF cell = NaN THEN <<1, 2>>
                  ELSE RatNorm(2 * less + equal + 1, 2 * Cardinality(G))
    IN  IF RatLess(ranked, <<0, 1>>) THEN <<0, 1>>
        ELSE IF RatLess(<<1, 1>>, ranked) THEN <<1, 1>>
        ELSE ranked

\* the scaled scores of row i over a set of columns, in some order
RECURSIVE ScaledScores(_, _, _)
ScaledScores(rows, cols, i) ==
    IF cols = {} THEN <<>>
    ELSE LET c == CHOOSE x \in cols : TRUE
         IN  <<ScaleTo01(rows, c, i)>> \o ScaledScores(rows, cols \ {c}, i)

\* _compute_quality_score and its three siblings at row i: the mean of the
\* scaled source columns that exist, the neutral score when none exists
SubScore(df, candidates, i) ==
    LET cols == candidates \cap df.columns
    IN  IF cols = {} THEN NeutralScore
        ELSE LET t == RatSumSeq(ScaledScores(df.rows, cols, i))
             IN  RatNorm(t[1], t[2] * Cardinality(cols))

compute_composite_scores(df, weights_text) ==
    IF df.rows = <<>>
    THEN [status |-> "ok", rows |-> <<>>]
    ELSE LET w == get_composite_weights(weights_text)
         IN  IF w.status # "ok"
             THEN [status |-> w.status, rows |-> <<>>]
             ELSE [status |-> "ok",
                   rows |->
                     [i \in 1..Len(df.rows) |->
                        LET q == SubScore(df, QualityCandidates, i)
                            v == SubScore(df, ValuationCandidates, i)
                            m == SubScore(df, MomentumCandidates, i)
                            n == SubScore(df, SentimentCandidates, i)
                            c == RatAdd(RatAdd(RatMul(w.value["quality"], q),
                                               RatMul(w.value["valuation"], v)),
                                        RatAdd(RatMul(w.value["momentum"], m),
                                               RatMul(w.value["sentiment"], n)))
                        IN  [ticker |-> df.rows[i]["ticker"][1],
                             dt |-> df.rows[i]["dt"][1],
                             quality_score |-> q, valuation_score |-> v,
                             momentum_score |-> m, sentiment_score |-> n,
                             composite_score |-> c,
                             risk_adjusted_score |-> c]]]

\* the source columns the frames of the model may hold
CompColumnPool ==
    {"roe", "pe_vs_sector", "momentum_20", "rsi_14", "sent_mean_comp"}

\* the value of a source cell: roe ties across tickers, the others do not
SourceValueOf(ticker, dt, col) ==
    IF col = "roe" THEN 15
    ELSE IF col = "rsi_14" THEN 30 * ticker + 10 * dt
    ELSE 2 * ticker + dt

\* the frame over a key set with the source columns C, whose cells are
\* missing on the keys M
CompFrameOf(S, C, M) ==
    LET ks == KeysByDate(S)
    IN  [columns |-> key_cols \cup C,
         rows |-> [i \in 1..Len(ks) |->
                      [c \in key_cols \cup C |->
                          IF c = "ticker" THEN Val(ks[i][1])
                          ELSE IF c = "dt" THEN Val(ks[i][2])
                          ELSE IF ks[i] \in M THEN NaN
                          ELSE Val(SourceValueOf(ks[i][1], ks[i][2], c))]]]

CompKeySets ==
    {X \in SUBSET (Tickers \X CompDays) : Cardinality(X) <= MaxCompRows}

\* COMPOSITE_WEIGHTS at these calls: the default, a mapping with one key, and
\* a text that is JSON but no mapping
CompWeightTexts ==
    {[kind |-> "object", members |-> [k \in WeightKeys |-> <<1, 4>>]],
     [kind |-> "object", members |-> [k \in {"momentum"} |-> <<1, 2>>]],
     [kind |-> "array", members |-> <<>>]}

CompCall ==
    /\ comp_in # None
    /\ comp_out = None
    /\ comp_out' = compute_composite_scores(comp_in.df,
                                            comp_in.COMPOSITE_WEIGHTS)
    /\ UNCHANGED <<splitVars, asofVars, labelVars, dbVars, predVars, sentVars,
                   cleanVars, comp_in, weightsVars, techVars,
                   lastVars>>

InitComp ==
    /\ \E S \in CompKeySets, C \in SUBSET CompColumnPool,
          text \in CompWeightTexts :
           \E M \in SUBSET S :
               comp_in = [df |-> CompFrameOf(S, C, M),
                          COMPOSITE_WEIGHTS |-> text]
    /\ comp_out = None
    /\ SplitIdle /\ AsofIdle /\ LabelIdle /\ DbIdle
    /\ PredIdle /\ SentIdle /\ CleanIdle /\ WeightsIdle /\ TechIdle /\ LastIdle

NextComp == CompCall

SpecComp == InitComp /\ [][NextComp]_vars


(***************************************************************************)
(* data/features/technicals.py: compute_technical_indicators               *)
(* A price row is [ticker, dt, adj_close]; an output row is                *)
(* [ticker, dt, cells] with cells a function from indicator columns to     *)
(* cells.  Prices are in tenths; sma and momentum are exact fractions.     *)
(* The indicators of the ta library that are no rolling mean (ema, rsi,    *)
(* macd, adx, atr, Bollinger bands) and the rolling standard deviation are *)
(* kept opaque: a cell holding Computed is whatever that computation gave. *)
(* Whether the library raises for a ticker is an input of the call.        *)
(***************************************************************************)
MaxBars == 22        \* price rows per ticker

\* if len(ticker_df) < 20
MinBars == 20

required_cols ==
    {"ticker", "dt", "open", "high", "low", "close", "volume", "adj_close"}

\* the columns assigned on the path of a ticker with enough history
IndicatorColumns ==
    {"sma_20", "sma_50", "sma_200", "ema_20", "ema_50", "ema_200", "rsi_14",
     "macd", "macd_signal", "macd_diff", "adx_14", "atr_14",
     "bb_high", "bb_low", "bb_mid", "bb_width",
     "momentum_20", "momentum_60", "rv_20"}

\* Mutant: _add_nan_columns leaves out the realized volatility
NanColumns_Short ==
    {"sma_20", "sma_50", "sma_200", "ema_20", "ema_50", "ema_200", "rsi_14",
     "macd", "macd_signal", "macd_diff", "adx_14", "atr_14",
     "bb_high", "bb_low", "bb_mid", "bb_width",
     "momentum_20", "momentum_60"}

\* the columns list of _add_nan_columns
NanColumns ==
    {"sma_20", "sma_50", "sma_200",
     "ema_20", "ema_50", "ema_200",
     "rsi_14",
     "macd", "macd_signal", "macd_diff",
     "adx_14", "atr_14",
     "bb_high", "bb_low", "bb_mid", "bb_width",
     "momentum_20", "momentum_60",
     "rv_20"}

\* a value that is not followed further
Computed == <<0, 0>>

\* df.sort_values(["ticker", "dt"]).reset_index(drop=True)
SortBars(s) ==
    LET tickers == [j \in DOMAIN s |-> s[j].ticker]
        dates == [j \in DOMAIN s |-> s[j].dt]
        rank == [j \in DOMAIN s |-> SortRank(tickers, dates, j)]
    IN  [i \in DOMAIN s |-> s[CHOOSE j \in DOMAIN s : rank[j] = i]]

\* SMAIndicator(close, window).sma_indicator() at row k of a group:
\* close.rolling(window, min_periods=window).mean()
SmaIndicator(close, k, window) ==
    IF k < window THEN NaN
    ELSE Val(RatNorm(SumSeq(SubSeq(close, k - window + 1, k)), window))

\* close_prices.pct_change(periods) at row k of a group
PctChange(close, k, periods) ==
    IF k <= periods THEN NaN
    ELSE Val(RatNorm(close[k] - close[k - periods], close[k - periods]))

\* _add_nan_columns(ticker_df): every column of its list, missing
AddNanColumns(group) ==
    [k \in 1..Len(group) |->
        [ticker |-> group[k].ticker, dt |-> group[k].dt,
         cells |-> [c \in NanColumns |-> NaN]]]

\* the indicator assignments of a ticker with enough history
ComputeIndicators(group) ==
    LET close == [k \in 1..Len(group) |-> group[k].adj_close]
    IN  [k \in 1..Len(group) |->
            [ticker |-> group[k].ticker, dt |-> group[k].dt,
             cells |-> [c \in IndicatorColumns |->
                           IF c = "sma_20" THEN SmaIndicator(close, k, 20)
                           ELSE IF c = "sma_50" THEN SmaIndicator(close, k, 50)
                           ELSE IF c = "sma_200" THEN SmaIndicator(close, k, 200)
                           ELSE IF c = "momentum_20" THEN PctChange(close, k, 20)
                           ELSE IF c = "momentum_60" THEN PctChange(close, k, 60)
                           ELSE Val(Computed)]]]

\* Mutant: the rows of a ticker whose computation raised are left out
TickerResult_DropOnError(group, raises) ==
    IF Len(group) < MinBars THEN AddNanColumns(group)
    ELSE IF raises THEN <<>>
    ELSE ComputeIndicators(group)

\* the body of the loop for one ticker's group: the try block, with its
\* early exit for short groups, and the except block
TickerResult(group, raises) ==
    IF Len(group) < MinBars THEN AddNanColumns(group)
    ELSE IF raises THEN AddNanColumns(group)
    ELSE ComputeIndicators(group)

\* pd.concat(result_dfs, ignore_index=True): the rows of the groups in
\* order, over the union of their columns
RECURSIVE ConcatGroups(_)
ConcatGroups(result_dfs) ==
    IF result_dfs = <<>> THEN <<>>
    ELSE Head(result_dfs) \o ConcatGroups(Tail(result_dfs))

ConcatColumns(rows) ==
    LET columns == UNION {DOMAIN rows[i].cells : i \in 1..Len(rows)}
    IN  [i \in 1..Len(rows) |->
            [rows[i] EXCEPT !.cells =
                [c \in columns |->
                    IF c \in DOMAIN rows[i].cells THEN rows[i].cells[c]
                    ELSE NaN]]]

\* the tickers of a sorted frame in order of first appearance
\* (groupby("ticker", sort=False))
RECURSIVE GroupOrder(_, _)
GroupOrder(df, seen) ==
    IF df = <<>> THEN <<>>
    ELSE IF Head(df).ticker \in seen THEN GroupOrder(Tail(df), seen)
    ELSE <<Head(df).ticker>> \o GroupOrder(Tail(df), seen \cup {Head(df).ticker})

compute_technical_indicators(df, failing) ==
    IF df.rows = <<>>
    THEN [status |-> "ok", rows |-> <<>>]
    ELSE IF ~(required_cols \subseteq df.columns)
    THEN [status |-> "ValueError", rows |-> <<>>]
    ELSE LET sorted == SortBars(df.rows)
             order == GroupOrder(sorted, {})
             result_dfs ==
                 [g \in 1..Len(order) |->
                     TickerResult(
                         SelectSeq(sorted, LAMBDA r : r.ticker = order[g]),
                         order[g] \in failing)]
         IN  [status |-> "ok",
              rows |-> ConcatColumns(ConcatGroups(result_dfs))]

\* a price frame with n1 bars of ticker 1 and n2 bars of ticker 2, ticker 2
\* first and latest bar first
AdjCloseOf(ticker, dt) == 1000 * ticker + dt + 2 * (dt % 3)

PriceFrameOf(n1, n2, columns) ==
    [columns |-> columns,
     rows |-> [i \in 1..(n1 + n2) |->
                  IF i <= n2
                  THEN [ticker |-> 2, dt |-> n2 - i + 1,
                        adj_close |-> AdjCloseOf(2, n2 - i + 1)]
                  ELSE [ticker |-> 1, dt |-> i - n2,
                        adj_close |-> AdjCloseOf(1, i - n2)]]]

PriceColumnSets == {required_cols, required_cols \ {"volume"}}

TechCall ==
    /\ tech_in # None
    /\ tech_out = None
    /\ tech_out' = compute_technical_indicators(tech_in.df, tech_in.failing)
    /\ UNCHANGED <<splitVars, asofVars, labelVars, dbVars, predVars, sentVars,
                   cleanVars, compVars, weightsVars, tech_in,
                   lastVars>>

InitTech ==
    /\ \E n1 \in 0..MaxBars, n2 \in 0..MaxBars,
          columns \in PriceColumnSets, failing \in SUBSET Tickers :
           tech_in = [df |-> PriceFrameOf(n1, n2, columns),
                      failing |-> failing]
    /\ tech_out = None
    /\ SplitIdle /\ AsofIdle /\ LabelIdle /\ DbIdle
    /\ PredIdle /\ SentIdle /\ CleanIdle /\ CompIdle /\ WeightsIdle
    /\ LastIdle

NextTech == TechCall

SpecTech == InitTech /\ [][NextTech]_vars


(***************************************************************************)
(* data/features/fundamentals.py: relative_valuation                       *)
(* A row is a function from the frame's columns to cells; ticker, dt and   *)
(* the metrics pe and pb are cells holding integers.  A sector             *)
(* mapping is [kind |-> "none"] or [kind |-> "dict", items |-> f] with f a *)
(* function from tickers to sector names.  A sector-relative cell holds an *)
(* exact fraction; a z-score cell holds ZScore(dev, var), the number       *)
(* dev / sqrt(var).  Inf and NegInf are the two infinities of a float      *)
(* division by zero.                                                       *)
(***************************************************************************)
MaxValRows == 3      \* rows of the frame given to relative_valuation

ValTickers == {1, 2, 3}
ValDays == {0, 1}
PeCells == {NaN, Val(-2), Val(0), Val(2)}

Inf == <<1, 0>>
NegInf == <<-1, 0>>

RatNeg(x) == <<0 - x[1], x[2]>>

RatSub(x, y) == RatAdd(x, RatNeg(y))

\* x / y for a fraction y that is not zero
RatDiv(x, y) ==
    IF y[1] < 0 THEN RatNorm((0 - x[1]) * y[2], x[2] * (0 - y[1]))
    ELSE RatNorm(x[1] * y[2], x[2] * y[1])

ZScore(dev, var) == <<dev[1], dev[2], var[1], var[2]>>

\* the fractions of the non-missing cells of a column on the rows of G
PresentValues(rows, col, G) ==
    LET present == SelectSeq([i \in 1..Len(rows) |-> i],
                             LAMBDA i : i \in G /\ rows[i][col] # NaN)
    IN  [k \in 1..Len(present) |-> <<rows[present[k]][col][1], 1>>]

\* groupby(...)[metric].transform("mean"): the mean of the non-missing
\* cells, missing when there is none
GroupMean(values) ==
    IF values = <<>> THEN NaN
    ELSE Val(RatDiv(RatSumSeq(values), <<Len(values), 1>>))

\* groupby(...)[metric].transform("std"): the sample variance of the
\* non-missing cells (its square root is the std), missing below two
GroupVar(values) ==
    IF Len(values) < 2 THEN NaN
    ELSE LET mean == GroupMean(values)[1]
             squares == [k \in 1..Len(values) |->
                            RatMul(RatSub(values[k], mean),
                                   RatSub(values[k], mean))]
         IN  Val(RatDiv(RatSumSeq(squares), <<Len(values) - 1, 1>>))

\* a float division x / y of two cells holding fractions
FloatDiv(x, y) ==
    IF x = NaN \/ y = NaN THEN NaN
    ELSE IF y[1][1] # 0 THEN Val(RatDiv(x[1], y[1]))
    ELSE IF x[1][1] > 0 THEN Val(Inf)
    ELSE IF x[1][1] < 0 THEN Val(NegInf)
    ELSE NaN

\* Mutant: infinities are kept
ReplaceInf_Keep(cell) == cell

\* .replace([float("inf"), -float("inf")], float("nan"))
ReplaceInf(cell) == IF cell \in {Val(Inf), Val(NegInf)} THEN NaN ELSE cell

\* df["ticker"].map(sector_mapping): missing for a ticker without entry
SectorOf(sector_mapping, ticker) ==
    IF ticker[1] \in DOMAIN sector_mapping.items
    THEN Val(sector_mapping.items[ticker[1]])
    ELSE NaN

\* the rows of the (dt, sector) group of row i; a row without sector is in
\* no group
SectorGroup(rows, sector_mapping, i) ==
    IF SectorOf(sector_mapping, rows[i]["ticker"]) = NaN THEN {}
    ELSE {j \in 1..Len(rows) :
             /\ rows[j]["dt"] = rows[i]["dt"]
             /\ SectorOf(sector_mapping, rows[j]["ticker"])
                    = SectorOf(sector_mapping, rows[i]["ticker"])}

\* _compute_sector_relative for one metric at row i
SectorRelative(df, sector_mapping, metric, i) ==
    IF metric \notin df.columns THEN NaN
    ELSE LET G == SectorGroup(df.rows, sector_mapping, i)
             sector_means == GroupMean(PresentValues(df.rows, metric, G))
             value == IF df.rows[i][metric] = NaN THEN NaN
                      ELSE Val(<<df.rows[i][metric][1], 1>>)
         IN  ReplaceInf(FloatDiv(value, sector_means))

\* _compute_cross_sectional_zscores for one metric at row i
CrossSectionalZscore(df, metric, i) ==
    IF metric \notin df.columns THEN NaN
    ELSE LET G == {j \in 1..Len(df.rows) :
                      df.rows[j]["dt"] = df.rows[i]["dt"]}
             values == PresentValues(df.rows, metric, G)
             mean == GroupMean(values)
             var == GroupVar(values)
             cell == df.rows[i][metric]
         IN  IF cell = NaN \/ mean = NaN \/ var = NaN THEN NaN
             ELSE LET dev == RatSub(mean[1], <<cell[1], 1>>)
                  IN  IF var[1][1] = 0
                      THEN ReplaceInf(FloatDiv(Val(dev), var))
                      ELSE Val(ZScore(dev, var[1]))

RelativeColumns == {"pe_vs_sector", "pb_vs_sector"}

MetricOfRelative(c) == IF c = "pe_vs_sector" THEN "pe" ELSE "pb"

\* load_sector_mapping() is the mapping of SECTOR_MAP_PATH, if any
relative_valuation(df, sector_mapping, loaded) ==
    IF df.rows = <<>>
    THEN [status |-> "ok", columns |-> df.columns, rows |-> df.rows]
    ELSE LET mapping == IF sector_mapping.kind = "none" THEN loaded
                        ELSE sector_mapping
         IN  [status |-> "ok",
              columns |-> df.columns \cup RelativeColumns,
              rows |->
                  [i \in 1..Len(df.rows) |->
                      [c \in df.columns \cup RelativeColumns |->
                          IF c \notin RelativeColumns THEN df.rows[i][c]
                          ELSE IF mapping.kind # "none"
                          THEN SectorRelative(df, mapping,
                                              MetricOfRelative(c), i)
                          ELSE CrossSectionalZscore(df,
                                              MetricOfRelative(c), i)]]]

\* the price/book ratio of a key
PbOf(k) == k[1] + 2 * k[2]

\* a frame with the keys of S in (date, ticker) order and the
\* price/earnings cells of P
ValFrameOf(S, P, columns) ==
    LET ks == KeysByDate(S)
    IN  [columns |-> columns,
         rows |-> [i \in 1..Len(ks) |->
                      [c \in columns |->
                          IF c = "ticker" THEN Val(ks[i][1])
                          ELSE IF c = "dt" THEN Val(ks[i][2])
                          ELSE IF c = "pe" THEN P[ks[i]]
                          ELSE Val(PbOf(ks[i]))]]]

ValKeySets ==
    {S \in SUBSET (ValTickers \X ValDays) : Cardinality(S) <= MaxValRows}

ValColumnSets == {{"ticker", "dt", "pe", "pb"}, {"ticker", "dt", "pb"}}

NoMapping == [kind |-> "none"]

SectorMappings ==
    {NoMapping,
     [kind |-> "dict", items |-> [t \in ValTickers |-> "A"]],
     [kind |-> "dict", items |-> (1 :> "A" @@ 2 :> "A" @@ 3 :> "B")],
     [kind |-> "dict", items |-> (1 :> "A" @@ 2 :> "A")]}

LoadedMappings ==
    {NoMapping, [kind |-> "dict", items |-> [t \in ValTickers |-> "A"]]}

ValCall ==
    /\ val_in # None
    /\ val_out = None
    /\ val_out' = relative_valuation(val_in.df, val_in.sector_mapping,
                                     val_in.loaded)
    /\ UNCHANGED <<splitVars, asofVars, labelVars, dbVars, predVars, sentVars,
                   cleanVars, compVars, weightsVars, techVars, val_in,
                   trainVars, stdVars>>

InitVal ==
    /\ \E S \in ValKeySets, columns \in ValColumnSets,
          sector_mapping \in SectorMappings, loaded \in LoadedMappings :
           \E P \in [S -> PeCells] :
               val_in = [df |-> ValFrameOf(S, P, columns),
                         sector_mapping |-> sector_mapping,
                         loaded |-> loaded]
    /\ val_out = None
    /\ SplitIdle /\ AsofIdle /\ LabelIdle /\ DbIdle
    /\ PredIdle /\ SentIdle /\ CleanIdle /\ CompIdle /\ WeightsIdle /\ TechIdle
    /\ TrainIdle /\ StdIdle

NextVal == ValCall

SpecVal == InitVal /\ [][NextVal]_vars

(***************************************************************************)
(* ml/train.py: train_with_walk_forward_cv                                 *)
(* The frame of load_features_with_labels is a sequence of rows            *)
(* [ticker, dt]; feature and label values play no part in how the rows are *)
(* split, and fitting and scoring a model are not followed.  A fold of the *)
(* outcome keeps the positions (into the frame sorted by date) of its      *)
(* train, test, fit and early-stopping validation rows.                    *)
(***************************************************************************)
MaxTrainDay == 4     \* the loaded rows are dated within 0..MaxTrainDay

\* n_splits, embargo_days and test_size (as a percentage) of the calls
TrainSplitCounts == {2, 3}
TrainEmbargoes == {0, 2}

\* df.sort_values("dt").reset_index(drop=True)["dt"]: the date column of
\* the sorted frame.  The sort is pandas' default quicksort, which is not
\* stable: the order of the rows of one date is not followed, and the rest
\* of the function reads the rows by position and date only.
SortedDates(df) ==
    LET rank == [j \in DOMAIN df |->
                    1 + Cardinality({k \in DOMAIN df :
                            \/ df[k].dt < df[j].dt
                            \/ (df[k].dt = df[j].dt /\ k < j)})]
    IN  [i \in DOMAIN df |-> df[CHOOSE j \in DOMAIN df : rank[j] = i].dt]

\* val_size = int(len(X_train) * 0.2)
ValSize(n_train) == (n_train * 20) \div 100

\* X_train.iloc[:-val_size], or X_train when val_size is 0
FitSlice(train_idx, val_size) ==
    SubSeq(train_idx, 1, Len(train_idx) - val_size)

\* Mutant: the validation rows are the first val_size rows
ValSlice_Head(train_idx, val_size) == SubSeq(train_idx, 1, val_size)

\* X_train.iloc[-val_size:], or None (no rows) when val_size is 0
ValSlice(train_idx, val_size) ==
    SubSeq(train_idx, Len(train_idx) - val_size + 1, Len(train_idx))

\* one pass of the loop over the splits
FoldMetrics(fold_idx, split) ==
    LET val_size == ValSize(Len(split.train))
    IN  [fold |-> fold_idx,
         train_idx |-> split.train,
         test_idx |-> split.test,
         fit |-> FitSlice(split.train, val_size),
         val |-> ValSlice(split.train, val_size),
         n_train |-> Len(split.train),
         n_test |-> Len(split.test)]

TrainFailed ==
    [status |-> "ValueError", dates |-> <<>>, fold_metrics |-> <<>>,
     n_folds |-> 0]

train_with_walk_forward_cv(loaded, n_splits, embargo_days, test_pct) ==
    IF loaded = <<>> THEN TrainFailed
    ELSE LET dates == SortedDates(loaded)
             splits == expanding_window_split(
                           dates, n_splits, embargo_days, test_pct)
         IN  IF splits.status # "ok" THEN TrainFailed
             ELSE LET fold_metrics ==
                          [k \in 1..Len(splits.splits) |->
                              FoldMetrics(k - 1, splits.splits[k])]
                  IN  [status |-> "ok", dates |-> dates,
                       fold_metrics |-> fold_metrics,
                       n_folds |-> Len(fold_metrics)]

\* the loaded rows of a key set, in (ticker, date) order
LoadedFrameOf(S) ==
    LET ks == KeysInOrder(S)
    IN  [i \in 1..Len(ks) |-> [ticker |-> ks[i][1], dt |-> ks[i][2]]]

TrainCall ==
    /\ train_in # None
    /\ train_out = None
    /\ train_out' = train_with_walk_forward_cv(
                        train_in.loaded, train_in.n_splits,
                        train_in.embargo_days, train_in.test_pct)
    /\ UNCHANGED <<splitVars, asofVars, labelVars, dbVars, predVars, sentVars,
                   cleanVars, compVars, weightsVars, techVars, valVars,
                   train_in, stdVars>>

InitTrain ==
    /\ \E S \in SUBSET (Tickers \X (0..MaxTrainDay)),
          n_splits \in TrainSplitCounts, embargo_days \in TrainEmbargoes,
          test_pct \in TestSizePcts :
           train_in = [loaded |-> LoadedFrameOf(S), n_splits |-> n_splits,
                       embargo_days |-> embargo_days, test_pct |-> test_pct]
    /\ train_out = None
    /\ SplitIdle /\ AsofIdle /\ LabelIdle /\ DbIdle
    /\ PredIdle /\ SentIdle /\ CleanIdle /\ CompIdle /\ WeightsIdle /\ TechIdle
    /\ ValIdle /\ StdIdle

NextTrain == TrainCall

SpecTrain == InitTrain /\ [][NextTrain]_vars

(***************************************************************************)
(* ml/model_lgbm.py: LGBMForecaster.predict_with_std                       *)
(* A forecaster is [trained, n_rounds, best_iteration]: whether fit has    *)
(* set self.model, the boosting rounds of the booster, and                 *)
(* self.best_iteration, which LightGBM leaves at 0 when training ran       *)
(* without early stopping.  Predictions are for one row of X, in           *)
(* thousandths; the outcome keeps the num_iteration of every prediction    *)
(* that entered the mean and the deviation.                                *)
(***************************************************************************)
MaxRounds == 6       \* boosting rounds of a trained booster
MaxTrees == 6        \* n_trees ranges over 1..MaxTrees

\* the output of the tree of round j for the row
TreeOutput(j) == 64 \div j

\* self.model.predict(X_arr, num_iteration=i): the sum of the first i trees
PredictAt(i) == SumSeq([j \in 1..i |-> TreeOutput(j)])

\* n_trees_to_use = min(n_trees, self.best_iteration)
NTreesToUse(n_trees, best_iteration) == Min(n_trees, best_iteration)

\* range(max(1, self.best_iteration - n_trees_to_use),
\*       self.best_iteration + 1)
IterationRange(best_iteration, n_trees_to_use) ==
    LET first == Max(1, best_iteration - n_trees_to_use)
    IN  [k \in 1..(best_iteration + 1 - first) |-> first + k - 1]

\* tree_preds_arr.mean(axis=0): missing for no prediction
TreeMean(tree_preds) ==
    IF tree_preds = <<>> THEN NaN
    ELSE Val(RatNorm(SumSeq(tree_preds), Len(tree_preds)))

\* the square of tree_preds_arr.std(axis=0): the mean squared deviation
TreeVariance(tree_preds) ==
    IF tree_preds = <<>> THEN NaN
    ELSE LET n == Len(tree_preds)
             total == SumSeq(tree_preds)
             squares == [k \in 1..n |->
                            (n * tree_preds[k] - total)
                                * (n * tree_preds[k] - total)]
         IN  Val(RatNorm(SumSeq(squares), n * n * n))

predict_with_std(self, n_trees) ==
    IF ~self.trained
    THEN [status |-> "ValueError", iterations |-> <<>>,
          yhat |-> NaN, yhat_var |-> NaN]
    ELSE LET n_trees_to_use == NTreesToUse(n_trees, self.best_iteration)
             iterations == IterationRange(self.best_iteration, n_trees_to_use)
             tree_preds == [k \in 1..Len(iterations) |->
                               PredictAt(iterations[k])]
         IN  [status |-> "ok", iterations |-> iterations,
              yhat |-> TreeMean(tree_preds),
              yhat_var |-> TreeVariance(tree_preds)]

Untrained == [trained |-> FALSE, n_rounds |-> 0, best_iteration |-> 0]

StdCall ==
    /\ std_in # None
    /\ std_out = None
    /\ std_out' = predict_with_std(std_in.self, std_in.n_trees)
    /\ UNCHANGED <<splitVars, asofVars, labelVars, dbVars, predVars, sentVars,
                   cleanVars, compVars, weightsVars, techVars, valVars,
                   trainVars, std_in>>

InitStd ==
    /\ \E n_trees \in 1..MaxTrees :
           \/ std_in = [self |-> Untrained, n_trees |-> n_trees]
           \/ \E n_rounds \in 1..MaxRounds :
                  \E best_iteration \in 0..n_rounds :
                      std_in = [self |-> [trained |-> TRUE,
                                          n_rounds |-> n_rounds,
                                          best_iteration |-> best_iteration],
                                n_trees |-> n_trees]
    /\ std_out = None
    /\ SplitIdle /\ AsofIdle /\ LabelIdle /\ DbIdle
    /\ PredIdle /\ SentIdle /\ CleanIdle /\ CompIdle /\ WeightsIdle /\ TechIdle
    /\ ValIdle /\ TrainIdle

NextStd == StdCall

SpecStd == InitStd /\ [][NextStd]_vars

(***************************************************************************)
(* Claims about expanding_window_split, checked under SpecSplit.           *)
(***************************************************************************)
SplitDone == split_in # None /\ split_out # None
SplitOk == SplitDone /\ split_out.status = "ok"
DatesSorted == NpSort(split_in.dates)
\* the date at a 0-based position of the sorted date array
DateAt(j) == DatesSorted[j + 1]
Elems(s) == {s[k] : k \in 1..Len(s)}

\* C1: in every returned fold the latest train date plus embargo_days is at
\* most the earliest test date.
C1_EmbargoGap ==
    SplitOk =>
        \A k \in 1..Len(split_out.splits) :
            \A a \in Elems(split_out.splits[k].train) :
                \A b \in Elems(split_out.splits[k].test) :
                    DateAt(a) + split_in.embargo_days <= DateAt(b)

\* C1 witness: a fold was returned under a positive embargo, and a date lying
\* inside the embargo gap before its test window was kept out of its train set.
C1_Witness ==
    /\ SplitOk
    /\ split_in.embargo_days > 0
    /\ \E k \in 1..Len(split_out.splits) :
           \E j \in 0..(Len(DatesSorted) - 1) :
               /\ DateAt(j) < DateAt(split_out.splits[k].test[1])
               /\ DateAt(j) + split_in.embargo_days
                      > DateAt(split_out.splits[k].test[1])
               /\ j \notin Elems(split_out.splits[k].train)

\* C2: in every returned fold (embargo_days = 0 included) train and test are
\* disjoint and every train index is strictly below every test index.
C2_TrainBeforeTest ==
    SplitOk =>
        \A k \in 1..Len(split_out.splits) :
            /\ Elems(split_out.splits[k].train)
                   \cap Elems(split_out.splits[k].test) = {}
            /\ \A a \in Elems(split_out.splits[k].train) :
                   \A b \in Elems(split_out.splits[k].test) : a < b

\* C2 witness: without embargo, a fold whose train set ends right before its
\* test set begins.
C2_Witness ==
    /\ SplitOk
    /\ split_in.embargo_days = 0
    /\ \E k \in 1..Len(split_out.splits) :
           LET tr == split_out.splits[k].train
               te == split_out.splits[k].test
           IN  tr[Len(tr)] + 1 = te[1]

\* C3: the train set size never decreases from one returned fold to the next.
C3_TrainGrows ==
    SplitOk =>
        \A k \in 1..(Len(split_out.splits) - 1) :
            Len(split_out.splits[k].train) <= Len(split_out.splits[k + 1].train)

\* C3 witness: three folds were returned and the train set grew.
C3_Witness ==
    /\ SplitOk
    /\ Len(split_out.splits) >= 3
    /\ Len(split_out.splits[1].train) < Len(split_out.splits[3].train)

\* every candidate fold of the call has an empty train or an empty test set
AllCandidatesSkipped ==
    \A i \in 0..(split_in.n_splits - 1) :
        LET c == CandidateFold(DatesSorted, split_in.n_splits,
                               split_in.embargo_days, split_in.test_pct, i)
        IN  Len(c.train) = 0 \/ Len(c.test) = 0

\* C5: the call fails with a validation error and no folds when there are
\* fewer than n_splits + 1 dates, and when every candidate fold was skipped;
\* in all other cases it returns a non-empty fold list.
C5_ValidationError ==
    SplitDone =>
        IF Len(split_in.dates) < split_in.n_splits + 1
        THEN split_out.status = "ValueError" /\ split_out.splits = <<>>
        ELSE IF AllCandidatesSkipped
        THEN split_out.status = "ValueError" /\ split_out.splits = <<>>
        ELSE split_out.status = "ok" /\ Len(split_out.splits) >= 1

\* C5 witness: enough dates were given, every candidate fold was skipped and
\* the call failed.
C5_Witness ==
    /\ SplitDone
    /\ Len(split_in.dates) >= split_in.n_splits + 1
    /\ AllCandidatesSkipped
    /\ split_out.status = "ValueError"

(***************************************************************************)
(* Claims about asof_join_fundamentals, checked under SpecAsof.            *)
(***************************************************************************)
AsofDone == asof_in # None /\ asof_out # None
AsofOk == AsofDone /\ asof_out.status = "ok"

\* the snapshots given to the call that one (ticker, dt) row may look back on
PrecedingSnapshots(ticker, dt) ==
    {f \in Elems(asof_in.fundamentals_df) : f.ticker = ticker /\ f.asof <= dt}

\* the as-of date of the latest of them
LatestAsof(ticker, dt) ==
    CHOOSE a \in {f.asof : f \in PrecedingSnapshots(ticker, dt)} :
        \A f \in PrecedingSnapshots(ticker, dt) : f.asof <= a

\* the output has exactly one row per input row: same number of rows, and
\* every (ticker, dt) of the input appears in it
OneRowPerInputRow ==
    /\ asof_out.status = "ok"
    /\ Len(asof_out.rows) = Len(asof_in.trading_days_df)
    /\ \A r \in Elems(asof_in.trading_days_df) :
           \E o \in Elems(asof_out.rows) : o.ticker = r.ticker /\ o.dt = r.dt

\* C6: per-instrument causality of the as-of join, several instruments in the
\* trading-day table included: the output has exactly one row per input row,
\* and whatever is attached to a row is the pe of the same ticker's snapshot
\* with the latest as-of date <= the row's date, never a later snapshot or
\* another ticker's.
C6_AsofCausality ==
    AsofDone =>
        /\ OneRowPerInputRow
        /\ \A o \in Elems(asof_out.rows) :
               o.pe # NaN =>
                   /\ PrecedingSnapshots(o.ticker, o.dt) # {}
                   /\ o.pe = Val(PeOf(o.ticker, LatestAsof(o.ticker, o.dt)))

\* the staleness cap as the rows of a returned frame show it: a row carries
\* the pe of the latest preceding snapshot of its ticker exactly when the
\* trading date minus that as-of date is at most the cap
CapRespected ==
    /\ Len(asof_out.rows) = Len(asof_in.trading_days_df)
    /\ \A o \in Elems(asof_out.rows) :
           IF PrecedingSnapshots(o.ticker, o.dt) = {}
           THEN o.pe = NaN
           ELSE LET a == LatestAsof(o.ticker, o.dt)
                IN  IF o.dt - a <= asof_in.ffill_days
                    THEN o.pe = Val(PeOf(o.ticker, a))
                    ELSE o.pe = NaN

\* C7: staleness cap: every row of the trading-day table receives the
\* fundamentals of the latest preceding snapshot of its ticker exactly when
\* the trading date minus that as-of date does not exceed FUND_FFILL_DAYS;
\* beyond the cap its fundamentals are missing.
C7_StalenessCap ==
    AsofDone => (asof_out.status = "ok" /\ CapRespected)

\* C8: one snapshot on day 0, a cap of 120 days and 150 daily rows (days
\* 0..149): exactly the first 120 rows (days 0..119) have fundamentals and the
\* rows of days 120..149 have none.
C8_First120Rows ==
    (AsofDone /\ asof_in = GapTestArgs) =>
        /\ asof_out.status = "ok"
        /\ Len(asof_out.rows) = GapTestRows
        /\ \A i \in 1..Len(asof_out.rows) :
               IF i <= FUND_FFILL_DAYS
               THEN asof_out.rows[i].pe # NaN
               ELSE asof_out.rows[i].pe = NaN

(***************************************************************************)
(* Claims about compute_forward_returns, checked under SpecLabel.          *)
(***************************************************************************)
LabelDone == label_in # None /\ label_out # None

\* the price rows of one ticker in the call's input
PricesOfTicker(t) == {r \in Elems(label_in.prices_df) : r.ticker = t}

\* the k-th price row (k = 1, 2, ...) of a ticker in date order
KthPrice(t, k) ==
    CHOOSE r \in PricesOfTicker(t) :
        Cardinality({q \in PricesOfTicker(t) : q.dt < r.dt}) = k - 1

\* the label rows of one ticker, in output order
LabelsOfTicker(t) == SelectSeq(label_out.rows, LAMBDA r : r.ticker = t)

\* C9: for each ticker with n price rows the output holds exactly its first
\* max(0, n - H) dates, and the label at position k is
\* close[k+H] / close[k] - 1 with both closes taken from that ticker's own
\* rows; the trailing H rows of each ticker are absent.
C9_ForwardReturns ==
    LabelDone =>
        /\ label_out.status = "ok"
        /\ \A t \in Tickers :
               LET n == Cardinality(PricesOfTicker(t))
                   H == label_in.horizon_days
                   out == LabelsOfTicker(t)
               IN  /\ Len(out) = Max(0, n - H)
                   /\ \A k \in 1..Len(out) :
                          /\ out[k].dt = KthPrice(t, k).dt
                          /\ out[k].label =
                                 <<KthPrice(t, k + H).close - KthPrice(t, k).close,
                                   KthPrice(t, k).close>>

\* C9 witness: two tickers with interleaved dates were labelled with a
\* horizon of two rows; one of them has a label whose forward close differs
\* from its own close, and lost its trailing rows.
C9_Witness ==
    /\ LabelDone
    /\ label_in.horizon_days = 2
    /\ \A t \in Tickers : Cardinality(PricesOfTicker(t)) >= 1
    /\ \E t \in Tickers :
           /\ Cardinality(PricesOfTicker(t)) >= 3
           /\ Len(LabelsOfTicker(t)) = Cardinality(PricesOfTicker(t)) - 2
           /\ LabelsOfTicker(t)[1].label[1] # 0

(***************************************************************************)
(* Claims about the features table, checked under Spec.                    *)
(***************************************************************************)
LabelsCalled == db_call # None /\ db_call.op = "upsert_labels_to_features"

\* the positions of the label rows of a call whose key is in a key set
MatchingRows(rows, keys) == {i \in 1..Len(rows) : KeyOf(rows[i]) \in keys}

\* a label run made its SELECT in session s and waits before its UPDATEs
BeganIn(s) == label_runs[s] = None /\ label_runs'[s] # None

\* the label run of session s sent its UPDATEs, committed and returned
CommittedIn(s) == label_runs[s] # None /\ label_runs'[s] = None

\* a call was made and returned in one step, without a label run left waiting
ReturnedAtOnce(op) == label_runs' = label_runs /\ db_call'.op = op

\* the positions of the kept label rows of a run whose key is k
KeptRows(run, k) ==
    {j \in 1..Len(run.labels_to_update) : KeyOf(run.labels_to_update[j]) = k}

\* C10: upsert_labels_to_features never creates a feature row.  Its SELECT
\* changes nothing and keeps exactly the label rows whose key has a feature
\* row then; when none has, the call returns 0 at once.  Its UPDATEs leave
\* the key set and features_json as they are, set the label of exactly the
\* kept rows, drop the other label rows, and the call returns the number of
\* kept rows.
C10_LabelsNeverCreateRows ==
    [][/\ \A s \in Sessions :
              /\ BeganIn(s) =>
                     LET run == label_runs'[s]
                         rows == run.call.labels_df.rows
                         matched == MatchingRows(rows, DOMAIN features)
                     IN  /\ features' = features
                         /\ matched # {}
                         /\ Len(run.labels_to_update) = Cardinality(matched)
                         /\ \A i \in matched :
                                \E j \in 1..Len(run.labels_to_update) :
                                    run.labels_to_update[j] = rows[i]
              /\ CommittedIn(s) =>
                     LET run == label_runs[s]
                     IN  /\ DOMAIN features' = DOMAIN features
                         /\ \A k \in DOMAIN features :
                                /\ features'[k].features_json
                                       = features[k].features_json
                                /\ features'[k].label_ret_1d
                                       # features[k].label_ret_1d
                                       => KeptRows(run, k) # {}
                                /\ \A j \in KeptRows(run, k) :
                                       features'[k].label_ret_1d
                                           = run.labels_to_update[j].label
                         /\ db_call' = run.call
                         /\ db_ret' = [status |-> "ok",
                                       value |-> Len(run.labels_to_update)]
       /\ ReturnedAtOnce("upsert_labels_to_features") =>
              /\ features' = features
              /\ db_ret'.status = "ok" =>
                     /\ db_ret'.value = 0
                     /\ MatchingRows(db_call'.labels_df.rows,
                                     DOMAIN features) = {}
    ]_vars

\* C10 witness: a call with two label rows returned 1: one row had no feature
\* row and was dropped without creating one, the other set the label of its
\* feature row.
C10_Witness ==
    /\ LabelsCalled
    /\ db_ret.status = "ok"
    /\ db_ret.value = 1
    /\ Len(db_call.labels_df.rows) = 2
    /\ \E i \in 1..2 : KeyOf(db_call.labels_df.rows[i]) \notin DOMAIN features
    /\ \E i \in 1..2 :
           /\ KeyOf(db_call.labels_df.rows[i]) \in DOMAIN features
           /\ features[KeyOf(db_call.labels_df.rows[i])].label_ret_1d
                  = db_call.labels_df.rows[i].label

\* a label run returned 1 although both of its label rows have a feature row
\* by now: one of the rows was inserted after the run's SELECT, its label
\* was dropped, and it holds the label that a run of another session wrote
\* in between
LateRowDropped ==
    /\ LabelsCalled
    /\ db_ret = [status |-> "ok", value |-> 1]
    /\ Len(db_call.labels_df.rows) = 2
    /\ \A i \in 1..2 : KeyOf(db_call.labels_df.rows[i]) \in DOMAIN features
    /\ \E i, j \in 1..2 :
           /\ features[KeyOf(db_call.labels_df.rows[i])].label_ret_1d
                  = db_call.labels_df.rows[i].label
           /\ features[KeyOf(db_call.labels_df.rows[j])].label_ret_1d
                  \notin {NaN, db_call.labels_df.rows[j].label}

FeaturesCalled == db_call # None /\ db_call.op = "_upsert_features"

\* the keys of the rows of a frame
FrameKeys(df) == {KeyOf(df[i]) : i \in 1..Len(df)}

\* C11: the feature upsert is idempotent: a run of the pipeline leaves one row
\* per (ticker, dt) of its frame next to the rows stored before; a run whose
\* rows are all stored already (a second run over the same range) leaves the
\* row count unchanged; after a run each row of its frame holds the feature
\* values of that run.
C11_FeatureUpsertIdempotent ==
    [][ReturnedAtOnce("_upsert_features") =>
          LET df == db_call'.df
          IN  /\ DOMAIN features' = DOMAIN features \cup FrameKeys(df)
              /\ FrameKeys(df) \subseteq DOMAIN features =>
                     Cardinality(DOMAIN features') = Cardinality(DOMAIN features)
              /\ \A i \in 1..Len(df) :
                     features'[KeyOf(df[i])].features_json = df[i].features_json
    ]_vars

\* C11 witness: the last run went over two rows that were both stored and
\* labelled before it: the table still has exactly these two rows, with the
\* values of that run and the labels they had.
C11_Witness ==
    /\ FeaturesCalled
    /\ Len(db_call.df) = 2
    /\ Cardinality(DOMAIN features) = 2
    /\ \A i \in 1..2 :
           /\ KeyOf(db_call.df[i]) \in DOMAIN features
           /\ features[KeyOf(db_call.df[i])].label_ret_1d # NaN
           /\ features[KeyOf(db_call.df[i])].features_json
                  = db_call.df[i].features_json

(***************************************************************************)
(* Claims about the preds table, checked under SpecPred.                   *)
(***************************************************************************)
PredFrameKeys(df) == {PredKeyOf(df[i]) : i \in 1..Len(df)}

\* C12: the prediction upsert is keyed by (ticker, dt, horizon): a call that
\* returns leaves one stored prediction per key of its frame next to the ones
\* stored before, each holding the yhat, yhat_std and prob_up of that call;
\* re-applying a batch whose keys are all stored leaves the row count
\* unchanged; a stored prediction whose key is not in the frame (the same
\* ticker and date under another horizon included) is neither modified nor
\* removed.
C12_PredictionUpsertKeyed ==
    [][LET df == pred_call'.preds_df
           keys == PredFrameKeys(df)
       IN  /\ pred_ret'.status = "ok" =>
                  /\ DOMAIN preds' = DOMAIN preds \cup keys
                  /\ pred_ret'.value = Len(df)
                  /\ \A i \in 1..Len(df) :
                         LET p == preds'[PredKeyOf(df[i])]
                         IN  /\ p.yhat = df[i].yhat
                             /\ p.yhat_std = df[i].yhat_std
                             /\ p.prob_up = df[i].prob_up
           /\ keys \subseteq DOMAIN preds =>
                  Cardinality(DOMAIN preds') = Cardinality(DOMAIN preds)
           /\ \A k \in DOMAIN preds \ keys :
                  k \in DOMAIN preds' /\ preds'[k] = preds[k]
    ]_vars

\* C12 witness: the last call upserted the 5d prediction of a ticker and date
\* whose 1d prediction is stored with the values of the other model version.
C12_Witness ==
    /\ pred_call # None
    /\ pred_ret.status = "ok"
    /\ PredFrameKeys(pred_call.preds_df) = {<<1, 0, "5d">>}
    /\ <<1, 0, "1d">> \in DOMAIN preds
    /\ preds[<<1, 0, "5d">>].yhat = pred_call.preds_df[1].yhat
    /\ preds[<<1, 0, "1d">>].yhat # preds[<<1, 0, "5d">>].yhat

(***************************************************************************)
(* Claims about aggregate_news_sentiment, checked under SpecSent.          *)
(***************************************************************************)
SentDone == sent_in # None /\ sent_out # None

\* the output rows of one ticker, in output order
SentRowsOf(t) == SelectSeq(sent_out.rows, LAMBDA r : r.ticker = t)

\* the positions of the news rows that are the first of their (ticker, url)
FirstOccurrences(t) ==
    {i \in 1..Len(sent_in.news_df) :
        /\ sent_in.news_df[i].ticker = t
        /\ \A j \in 1..(i - 1) :
               ~(sent_in.news_df[j].ticker = t
                 /\ sent_in.news_df[j].url = sent_in.news_df[i].url)}

\* those of them that fall on one of a set of days
FirstOn(t, days) ==
    {i \in FirstOccurrences(t) : NewsDate(sent_in.news_df[i].dt) \in days}

RECURSIVE SentSum(_)
SentSum(I) ==
    IF I = {} THEN 0
    ELSE LET i == CHOOSE x \in I : TRUE
         IN  sent_in.news_df[i].sent_comp + SentSum(I \ {i})

\* the days of the rows lo..hi (cut at row 1) of a ticker's output rows
DaysOfRows(out, lo, hi) == {out[j].dt : j \in Max(1, lo)..hi}

\* C13: news rows of one ticker sharing a url count once, at their first
\* occurrence: on every output row the daily mean is the mean sent_comp of
\* the first occurrences of the row's ticker on the row's day (0 when there
\* is none), and burst_3d / burst_7d are the numbers of first occurrences of
\* that ticker on the days of the last 3 / 7 rows; a url counts for each
\* ticker it appears under.
C13_DuplicatesCountOnce ==
    SentDone =>
        /\ sent_out.status = "ok"
        /\ \A t \in Tickers :
               LET out == SentRowsOf(t)
               IN  \A k \in 1..Len(out) :
                       LET today == FirstOn(t, {out[k].dt})
                       IN  /\ out[k].sent_mean_comp =
                                  IF today = {} THEN Val(RatZero)
                                  ELSE Val(RatNorm(SentSum(today),
                                                   Cardinality(today)))
                           /\ out[k].burst_3d =
                                  Val(Cardinality(
                                      FirstOn(t, DaysOfRows(out, k - 2, k))))
                           /\ out[k].burst_7d =
                                  Val(Cardinality(
                                      FirstOn(t, DaysOfRows(out, k - 6, k))))

\* C13 witness: two news rows of one ticker share a url on a spine day; the
\* row of that day counts one headline and has the sentiment of the first.
C13_Witness ==
    /\ SentDone
    /\ Len(sent_in.news_df) = 2
    /\ sent_in.news_df[1].ticker = sent_in.news_df[2].ticker
    /\ sent_in.news_df[1].url = sent_in.news_df[2].url
    /\ sent_in.news_df[1].sent_comp # sent_in.news_df[2].sent_comp
    /\ \E r \in Elems(sent_out.rows) :
           /\ r.ticker = sent_in.news_df[1].ticker
           /\ r.dt = NewsDate(sent_in.news_df[1].dt)
           /\ r.dt = NewsDate(sent_in.news_df[2].dt)
           /\ r.burst_3d = Val(1)
           /\ r.burst_7d = Val(1)
           /\ r.sent_mean_comp = Val(<<sent_in.news_df[1].sent_comp, 1>>)

\* the daily headline count of a ticker on a day: its deduplicated news rows
\* of that day
HeadlineCount(t, d) == Len(NewsGroup(DropDuplicates(sent_in.news_df), t, d))

\* the sum of the daily headline counts of the rows lo..hi (cut at row 1) of
\* a ticker's output rows
CountsOfRows(t, out, lo, hi) ==
    SumSeq([j \in 1..(hi - Max(1, lo) + 1) |->
               HeadlineCount(t, out[Max(1, lo) + j - 1].dt)])

\* C14: burst counters are trailing and per ticker: the output rows of a
\* ticker are in date order, and on its k-th row burst_3d is the sum of that
\* ticker's daily headline counts on its rows k-2..k and burst_7d the sum on
\* its rows k-6..k (cut at the first row); with 1, 2, 3, 3, 3, ... headlines
\* a day, burst_3d is 6 on day 3 and burst_7d is 18 on day 7.
C14_TrailingBursts ==
    SentDone =>
        /\ sent_out.status = "ok"
        /\ \A t \in Tickers :
               LET out == SentRowsOf(t)
               IN  /\ \A k \in 1..(Len(out) - 1) : out[k].dt < out[k + 1].dt
                   /\ \A k \in 1..Len(out) :
                          /\ out[k].burst_3d =
                                 Val(CountsOfRows(t, out, k - 2, k))
                          /\ out[k].burst_7d =
                                 Val(CountsOfRows(t, out, k - 6, k))
        /\ sent_in = BurstTestArgs =>
               /\ sent_out.rows[3].burst_3d = Val(6)
               /\ sent_out.rows[7].burst_7d = Val(18)

\* C14 witness: the ten-day scenario was aggregated: 6 and 18 on days 3 and
\* 7, and on day 10 the windows have left the first days behind (9 headlines
\* in 3 days, 21 in 7).
C14_Witness ==
    /\ SentDone
    /\ sent_in = BurstTestArgs
    /\ Len(sent_out.rows) = BurstTestDays
    /\ sent_out.rows[3].dt = 3 /\ sent_out.rows[3].burst_3d = Val(6)
    /\ sent_out.rows[7].dt = 7 /\ sent_out.rows[7].burst_7d = Val(18)
    /\ sent_out.rows[10].burst_3d = Val(9)
    /\ sent_out.rows[10].burst_7d = Val(21)

\* the news rows of a ticker on one of a set of days
NewsOn(t, days) ==
    {i \in 1..Len(sent_in.news_df) :
        /\ sent_in.news_df[i].ticker = t
        /\ NewsDate(sent_in.news_df[i].dt) \in days}

\* C15: aggregate_news_sentiment never emits a missing value and returns one
\* row per spine row: a row of a day without news of its ticker has daily
\* sentiment 0.0, a window without news of the ticker has burst 0, and
\* without any news every row is 0.0, 0, 0, 0.0.
C15_NoMissingValues ==
    SentDone =>
        /\ sent_out.status = "ok"
        /\ Len(sent_out.rows) = Len(sent_in.trading_days_df)
        /\ \A r \in Elems(sent_in.trading_days_df) :
               \E o \in Elems(sent_out.rows) : o.ticker = r.ticker /\ o.dt = r.dt
        /\ \A o \in Elems(sent_out.rows) :
               /\ o.sent_mean_comp # NaN /\ o.sent_ma_7d # NaN
               /\ o.burst_3d # NaN /\ o.burst_7d # NaN
               /\ sent_in.news_df = <<>> =>
                      /\ o.sent_mean_comp = Val(RatZero)
                      /\ o.sent_ma_7d = Val(RatZero)
                      /\ o.burst_3d = Val(0) /\ o.burst_7d = Val(0)
        /\ \A t \in Tickers :
               LET out == SentRowsOf(t)
               IN  \A k \in 1..Len(out) :
                       /\ NewsOn(t, {out[k].dt}) = {} =>
                              out[k].sent_mean_comp = Val(RatZero)
                       /\ NewsOn(t, DaysOfRows(out, k - 2, k)) = {} =>
                              out[k].burst_3d = Val(0)
                       /\ NewsOn(t, DaysOfRows(out, k - 6, k)) = {} =>
                              out[k].burst_7d = Val(0)

\* C15 witness: a ticker has news on one spine day and none on an earlier
\* one: the earlier row has sentiment 0.0 and bursts 0, the later one has not.
C15_Witness ==
    /\ SentDone
    /\ sent_in.news_df # <<>>
    /\ \E t \in Tickers :
           LET out == SentRowsOf(t)
           IN  /\ Len(out) >= 2
               /\ NewsOn(t, {out[1].dt}) = {}
               /\ out[1].sent_mean_comp = Val(RatZero)
               /\ out[1].burst_3d = Val(0) /\ out[1].burst_7d = Val(0)
               /\ out[1].sent_ma_7d = Val(RatZero)
               /\ out[2].burst_3d # Val(0)
               /\ out[2].sent_mean_comp # Val(RatZero)

(***************************************************************************)
(* Claims about clean_features, checked under SpecClean.                   *)
(***************************************************************************)
CleanDone == clean_in # None /\ clean_out # None

\* C16: a non-key column is dropped exactly when its missing-rate over all
\* rows of the frame is strictly greater than the threshold (a column whose
\* rate equals the threshold is kept); the key columns ticker and dt are
\* never dropped, whatever their missing-rate, and keep their cells.
C16_DropAboveThreshold ==
    CleanDone =>
        LET rows == clean_in.df.rows
            n == Len(rows)
        IN  /\ clean_out.status = "ok"
            /\ key_cols \subseteq clean_out.columns
            /\ clean_out.columns \subseteq clean_in.df.columns
            /\ Len(clean_out.rows) = n
            /\ \A i \in 1..Len(clean_out.rows) :
                   DOMAIN clean_out.rows[i] = clean_out.columns
            /\ \A c \in key_cols :
                   NanCount(clean_out.rows, c) = NanCount(rows, c)
            /\ \A c \in clean_in.df.columns \ key_cols :
                   c \notin clean_out.columns
                       <=> (n > 0 /\ 100 * NanCount(rows, c)
                                         > clean_in.nan_threshold * n)

\* C16 witness: at a threshold of 0.8 and five rows, the note is missing on
\* four rows and is kept, the metric is missing on five and is dropped, and
\* ticker and dt are missing on all five rows and are both kept.
C16_Witness ==
    /\ CleanDone
    /\ clean_in.nan_threshold = 80
    /\ Len(clean_in.df.rows) = 5
    /\ NanCount(clean_in.df.rows, "note") = 4
    /\ NanCount(clean_in.df.rows, "metric") = 5
    /\ NanCount(clean_in.df.rows, "ticker") = 5
    /\ NanCount(clean_in.df.rows, "dt") = 5
    /\ clean_out.columns = {"ticker", "dt", "note"}
    /\ NanCount(clean_out.rows, "ticker") = 5
    /\ NanCount(clean_out.rows, "dt") = 5

\* a key column above the threshold beside a metric that is filled: dt is
\* missing on four of five rows at a threshold of 0.5 and is kept, and the
\* metric, missing on two rows, is kept and holds no missing cell afterwards
C16_KeyAboveThresholdFilled ==
    /\ CleanDone
    /\ clean_in.nan_threshold = 50
    /\ Len(clean_in.df.rows) = 5
    /\ NanCount(clean_in.df.rows, "dt") = 4
    /\ NanCount(clean_in.df.rows, "metric") = 2
    /\ {"dt", "metric"} \subseteq clean_out.columns
    /\ NanCount(clean_out.rows, "dt") = 4
    /\ NanCount(clean_out.rows, "metric") = 0

\* rows without a ticker are in no group of the fill: the ticker is missing
\* on all five rows and is kept, and the metric, present on every input row,
\* is kept and holds 0 on every row afterwards
C16_NoTickerZeroFilled ==
    /\ CleanDone
    /\ Len(clean_in.df.rows) = 5
    /\ NanCount(clean_in.df.rows, "ticker") = 5
    /\ NanCount(clean_in.df.rows, "metric") = 0
    /\ \E r \in Elems(clean_in.df.rows) : r["metric"] # Val(0)
    /\ {"ticker", "metric"} \subseteq clean_out.columns
    /\ \A r \in Elems(clean_out.rows) : r["metric"] = Val(0)

\* the input rows of a ticker that hold a value in a column and lie before /
\* after a date
EarlierValues(t, d, c) ==
    {r \in Elems(clean_in.df.rows) :
        r["ticker"] = Val(t) /\ r["dt"][1] < d /\ r[c] # NaN}
LaterValues(t, d, c) ==
    {r \in Elems(clean_in.df.rows) :
        r["ticker"] = Val(t) /\ r["dt"][1] > d /\ r[c] # NaN}

\* the input row of a key
InputRow(t, d) ==
    CHOOSE r \in Elems(clean_in.df.rows) : r["ticker"] = Val(t) /\ r["dt"] = Val(d)

\* what a cell of a retained numeric column holds after the fill
ExpectedFill(t, d, c) ==
    IF InputRow(t, d)[c] # NaN THEN InputRow(t, d)[c]
    ELSE IF EarlierValues(t, d, c) # {}
    THEN (CHOOSE r \in EarlierValues(t, d, c) :
              \A o \in EarlierValues(t, d, c) : o["dt"][1] <= r["dt"][1])[c]
    ELSE IF LaterValues(t, d, c) # {}
    THEN (CHOOSE r \in LaterValues(t, d, c) :
              \A o \in LaterValues(t, d, c) : r["dt"][1] <= o["dt"][1])[c]
    ELSE Val(0)

\* C17: after clean_features no retained numeric non-key column holds a
\* missing value; a cell that was missing holds the nearest earlier
\* non-missing value of the same ticker, else the nearest later one of the
\* same ticker, else 0; a cell that was not missing is unchanged; every input
\* row is in the output.
C17_FillPerInstrument ==
    CleanDone =>
        /\ Len(clean_out.rows) = Len(clean_in.df.rows)
        /\ \A r \in Elems(clean_in.df.rows) :
               \E o \in Elems(clean_out.rows) :
                   o["ticker"] = r["ticker"] /\ o["dt"] = r["dt"]
        /\ \A o \in Elems(clean_out.rows) :
               \A c \in (clean_out.columns \cap NumericColumns) \ key_cols :
                   /\ o[c] # NaN
                   /\ o[c] = ExpectedFill(o["ticker"][1], o["dt"][1], c)

\* C17 witness: the metric of one ticker is missing on its first date and
\* present on its second, while the other ticker has it on an earlier date:
\* the cell was filled backward from the same ticker; on another row a
\* missing cell was filled forward.
C17_Witness ==
    /\ CleanDone
    /\ "metric" \in clean_out.columns
    /\ \E o \in Elems(clean_out.rows) :
           LET t == o["ticker"][1]
               d == o["dt"][1]
           IN  /\ InputRow(t, d)["metric"] = NaN
               /\ EarlierValues(t, d, "metric") = {}
               /\ \E r \in Elems(clean_in.df.rows) :
                      r["ticker"] # Val(t) /\ r["dt"][1] < d /\ r["metric"] # NaN
               /\ \E r \in LaterValues(t, d, "metric") : o["metric"] = r["metric"]
    /\ \E o \in Elems(clean_out.rows) :
           LET t == o["ticker"][1]
               d == o["dt"][1]
           IN  /\ InputRow(t, d)["metric"] = NaN
               /\ \E r \in EarlierValues(t, d, "metric") : o["metric"] = r["metric"]

(***************************************************************************)
(* Claims about get_composite_weights, checked under SpecWeights.          *)
(***************************************************************************)
WeightsDone == weights_in # None /\ weights_out # None

\* C19: get_composite_weights never fails and always returns exactly the
\* four keys quality, valuation, momentum, sentiment; for a malformed
\* COMPOSITE_WEIGHTS (text that is not JSON, or JSON that is no mapping) it
\* returns 0.25 for each of the four.
C19_WeightsNeverFail ==
    WeightsDone =>
        /\ weights_out.status = "ok"
        /\ DOMAIN weights_out.value = WeightKeys
        /\ weights_in.COMPOSITE_WEIGHTS.kind # "object" =>
               \A k \in WeightKeys : weights_out.value[k] = DefaultWeight

(***************************************************************************)
(* Claims about compute_composite_scores, checked under SpecComp.          *)
(***************************************************************************)
CompDone == comp_in # None /\ comp_out # None

\* C18: in the frame a call returns, a dimension none of whose candidate
\* source columns is in the input frame scores exactly 0.5 on every row,
\* each of the four dimensions on its own; the frame has the rows of the
\* input.
C18_NeutralWithoutSources ==
    (CompDone /\ comp_out.status = "ok") =>
        /\ Len(comp_out.rows) = Len(comp_in.df.rows)
        /\ \A o \in Elems(comp_out.rows) :
               /\ QualityCandidates \cap comp_in.df.columns = {} =>
                      o.quality_score = <<1, 2>>
               /\ ValuationCandidates \cap comp_in.df.columns = {} =>
                      o.valuation_score = <<1, 2>>
               /\ MomentumCandidates \cap comp_in.df.columns = {} =>
                      o.momentum_score = <<1, 2>>
               /\ SentimentCandidates \cap comp_in.df.columns = {} =>
                      o.sentiment_score = <<1, 2>>

\* C18 witness: a frame with momentum columns only was scored: quality,
\* valuation and sentiment are 0.5 on each of its rows while the momentum
\* score of a row is not.
C18_Witness ==
    /\ CompDone
    /\ comp_out.status = "ok"
    /\ comp_in.df.columns = key_cols \cup {"momentum_20", "rsi_14"}
    /\ Len(comp_out.rows) >= 2
    /\ \A o \in Elems(comp_out.rows) :
           /\ o.quality_score = <<1, 2>>
           /\ o.valuation_score = <<1, 2>>
           /\ o.sentiment_score = <<1, 2>>
    /\ \E o \in Elems(comp_out.rows) : o.momentum_score # <<1, 2>>

TechDone == tech_in # None /\ tech_out # None /\ tech_out.status = "ok"

TechRowsOf(rows, t) == SelectSeq(rows, LAMBDA r : r.ticker = t)

DatesOf(rows) == [i \in 1..Len(rows) |-> rows[i].dt]

ShortTickers ==
    {t \in Tickers :
        /\ Len(TechRowsOf(tech_in.df.rows, t)) > 0
        /\ Len(TechRowsOf(tech_in.df.rows, t)) < MinBars}

\* C20: compute_technical_indicators gives back every row of a ticker with
\* fewer than 20 bars, in date order, each with exactly the indicator
\* columns a ticker with enough history gets and every one of them missing.
C20_ShortHistoryAllMissing ==
    TechDone =>
        \A t \in ShortTickers :
            LET given == TechRowsOf(SortBars(tech_in.df.rows), t)
                got == TechRowsOf(tech_out.rows, t)
            IN  /\ Len(got) = Len(given)
                /\ DatesOf(got) = DatesOf(given)
                /\ \A i \in 1..Len(got) :
                       /\ DOMAIN got[i].cells = IndicatorColumns
                       /\ \A c \in IndicatorColumns : got[i].cells[c] = NaN

\* a ticker one bar short of the threshold next to a ticker whose last row
\* has a 20-bar average
C20_Witness ==
    /\ TechDone
    /\ Len(TechRowsOf(tech_in.df.rows, 1)) = MinBars - 1
    /\ Len(TechRowsOf(tech_in.df.rows, 2)) >= MinBars
    /\ Len(tech_out.rows) = Len(tech_in.df.rows)
    /\ \E i \in 1..Len(tech_out.rows) :
           /\ tech_out.rows[i].ticker = 2
           /\ tech_out.rows[i].cells["sma_20"] # NaN

\* the tickers whose indicator computation raised in this call
RaisedTickers ==
    {t \in tech_in.failing : Len(TechRowsOf(tech_in.df.rows, t)) >= MinBars}

\* the call's frame without the rows of ticker t
WithoutTicker(df, t) ==
    [df EXCEPT !.rows = SelectSeq(df.rows, LAMBDA r : r.ticker # t)]

\* C21: when the indicator computation of one ticker raises, the call
\* returns, every row of that ticker is in the result with every indicator
\* column missing, and the rows of each other ticker are those of the call
\* on the frame without the failing ticker.
C21_FailureIsolated ==
    (tech_in # None /\ tech_out # None
        /\ required_cols \subseteq tech_in.df.columns) =>
        \A t \in RaisedTickers :
            LET given == TechRowsOf(SortBars(tech_in.df.rows), t)
                got == TechRowsOf(tech_out.rows, t)
                alone == compute_technical_indicators(
                             WithoutTicker(tech_in.df, t), tech_in.failing)
            IN  /\ tech_out.status = "ok"
                /\ DatesOf(got) = DatesOf(given)
                /\ \A i \in 1..Len(got) :
                       /\ DOMAIN got[i].cells = IndicatorColumns
                       /\ \A c \in IndicatorColumns : got[i].cells[c] = NaN
                /\ \A u \in Tickers \ {t} :
                       TechRowsOf(tech_out.rows, u) = TechRowsOf(alone.rows, u)

\* ticker 1 raises with enough history next to ticker 2, whose last row
\* has a 20-bar average
C21_Witness ==
    /\ TechDone
    /\ 1 \in RaisedTickers
    /\ 2 \notin tech_in.failing
    /\ \E i \in 1..Len(tech_out.rows) :
           /\ tech_out.rows[i].ticker = 2
           /\ tech_out.rows[i].cells["sma_20"] # NaN
    /\ \E i \in 1..Len(tech_out.rows) :
           /\ tech_out.rows[i].ticker = 1
           /\ tech_out.rows[i].cells["sma_20"] = NaN

ValDone == val_in # None /\ val_out # None

\* the mapping the call worked with
ValMapping ==
    IF val_in.sector_mapping.kind = "none" THEN val_in.loaded
    ELSE val_in.sector_mapping

SectorMode == ValMapping.kind # "none"

\* the mean of the metric over the (dt, sector) group of input row i
SectorMeanAt(metric, i) ==
    GroupMean(PresentValues(val_in.df.rows, metric,
                            SectorGroup(val_in.df.rows, ValMapping, i)))

\* the sample variance of the metric over the input rows dated as row i
DateVarAt(metric, i) ==
    GroupVar(PresentValues(val_in.df.rows, metric,
                 {j \in 1..Len(val_in.df.rows) :
                     val_in.df.rows[j]["dt"] = val_in.df.rows[i]["dt"]}))

\* C22: relative_valuation returns no infinite pe_vs_sector or pb_vs_sector;
\* a row whose sector group has mean zero (sector mode) or whose date has a
\* standard deviation of zero or none (z-score mode) has the cell missing.
C22_NoInfinity ==
    (ValDone /\ val_in.df.rows # <<>>) =>
        \A i \in 1..Len(val_out.rows) :
            \A c \in RelativeColumns :
                LET metric == MetricOfRelative(c)
                    cell == val_out.rows[i][c]
                IN  /\ cell \notin {Val(Inf), Val(NegInf)}
                    /\ (metric \in val_in.df.columns /\ SectorMode
                          /\ SectorMeanAt(metric, i) = Val(RatZero))
                           => cell = NaN
                    /\ (metric \in val_in.df.columns /\ ~SectorMode
                          /\ DateVarAt(metric, i) \in {NaN, Val(RatZero)})
                           => cell = NaN

\* sector mode: a price/earnings ratio of 2 in a group whose mean is zero
C22_Witness ==
    /\ ValDone
    /\ SectorMode
    /\ \E i \in 1..Len(val_out.rows) :
           /\ "pe" \in val_in.df.columns
           /\ val_in.df.rows[i]["pe"] = Val(2)
           /\ SectorMeanAt("pe", i) = Val(RatZero)
           /\ val_out.rows[i]["pe_vs_sector"] = NaN

\* a fraction ordered as the relative score is: the score itself when it is
\* a sector-relative fraction, and z * |z| when it is a z-score
OrderKey(score) ==
    IF Len(score) = 2 THEN score
    ELSE RatNorm(score[1] * Abs(score[1]) * score[4],
                 score[2] * score[2] * score[3])

\* the returned frame with each relative score replaced by the number of
\* strictly lower scores on its date, which ranks the same way
RankedFrame(c) ==
    [i \in 1..Len(val_out.rows) |->
        [col \in {"dt", c} |->
            IF col = "dt" THEN val_out.rows[i]["dt"]
            ELSE IF val_out.rows[i][c] = NaN THEN NaN
            ELSE Val(Cardinality(
                     {j \in 1..Len(val_out.rows) :
                         /\ val_out.rows[j]["dt"] = val_out.rows[i]["dt"]
                         /\ val_out.rows[j][c] # NaN
                         /\ RatLess(OrderKey(val_out.rows[j][c][1]),
                                    OrderKey(val_out.rows[i][c][1]))}))]]

\* rows i and j are compared with each other: same date and, in sector
\* mode, same sector
SamePeerGroup(i, j) ==
    /\ val_in.df.rows[i]["dt"] = val_in.df.rows[j]["dt"]
    /\ SectorMode => j \in SectorGroup(val_in.df.rows, ValMapping, i)

\* C29: of two instruments of one date (and one sector, in sector mode) the
\* one with the lower raw ratio has a relative score, and a percentile of
\* that score, at least as high as the other, in both modes.
C29_LowerRatioScoresHigher ==
    (ValDone /\ val_in.df.rows # <<>>) =>
        \A c \in RelativeColumns :
            \A i, j \in 1..Len(val_out.rows) :
                LET metric == MetricOfRelative(c) IN
                (/\ metric \in val_in.df.columns
                 /\ SamePeerGroup(i, j)
                 /\ val_in.df.rows[i][metric] # NaN
                 /\ val_in.df.rows[j][metric] # NaN
                 /\ val_in.df.rows[i][metric][1] < val_in.df.rows[j][metric][1]
                 /\ val_out.rows[i][c] # NaN
                 /\ val_out.rows[j][c] # NaN)
                    => /\ ~RatLess(OrderKey(val_out.rows[i][c][1]),
                                   OrderKey(val_out.rows[j][c][1]))
                       /\ ~RatLess(ScaleTo01(RankedFrame(c), c, i),
                                   ScaleTo01(RankedFrame(c), c, j))

\* the same statement for the calls that fell back to z-scores
C29_ZscoreOrientation == ~SectorMode => C29_LowerRatioScoresHigher

\* the dates given to the splitter are pairwise distinct
DistinctDates ==
    \A a, b \in 1..Len(split_in.dates) :
        a # b => split_in.dates[a] # split_in.dates[b]

\* the candidate fold i (0-based) of the call
CandidateAt(i) ==
    CandidateFold(DatesSorted, split_in.n_splits, split_in.embargo_days,
                  split_in.test_pct, i)

\* test_window = max(1, floor(N * test_size))
WindowOf(N) == Max(1, (N * split_in.test_pct) \div 100)

\* step = max(1, floor((N - test_window) / n_splits))
StepOf(N) == Max(1, (N - WindowOf(N)) \div split_in.n_splits)

\* test_end = min(N, test_window + (i + 1) * step)
WindowEnd(N, i) == Min(N, WindowOf(N) + (i + 1) * StepOf(N))

\* the positions test_start .. test_end - 1, ascending
WindowPositions(N, i) ==
    [k \in 1..WindowOf(N) |-> WindowEnd(N, i) - WindowOf(N) + k - 1]

\* C26: for N distinct dates the test set of candidate fold i is the
\* test_window consecutive positions that end before
\* min(N, test_window + (i+1)*step); every returned fold has such a test
\* set; the window start never moves back and moves forward while the
\* window is not capped by N.
C26_WindowArithmetic ==
    (SplitDone /\ DistinctDates
        /\ Len(split_in.dates) >= split_in.n_splits + 1) =>
        LET N == Len(split_in.dates) IN
        /\ \A i \in 0..(split_in.n_splits - 1) :
               /\ CandidateAt(i).test = WindowPositions(N, i)
               /\ CandidateAt(i).test_start_idx = WindowEnd(N, i) - WindowOf(N)
               /\ i > 0 => CandidateAt(i - 1).test_start_idx
                               <= CandidateAt(i).test_start_idx
               /\ (i > 0 /\ WindowOf(N) + (i + 1) * StepOf(N) <= N)
                      => CandidateAt(i - 1).test_start_idx
                             < CandidateAt(i).test_start_idx
        /\ SplitOk =>
               \A k \in 1..Len(split_out.splits) :
                   \E i \in 0..(split_in.n_splits - 1) :
                       split_out.splits[k].test = WindowPositions(N, i)

\* five distinct dates, test_size 0.5: two folds came back whose test
\* windows of two positions start at different positions
C26_Witness ==
    /\ SplitOk
    /\ DistinctDates
    /\ Len(split_in.dates) = 5
    /\ split_in.test_pct = 50
    /\ Len(split_out.splits) >= 2
    /\ Len(split_out.splits[1].test) = 2
    /\ split_out.splits[1].test[1] < split_out.splits[2].test[1]

\* some date is given more than once
RepeatedDates == ~DistinctDates

TrainDates(k) == {DateAt(a) : a \in Elems(split_out.splits[k].train)}

TestDates(k) == {DateAt(b) : b \in Elems(split_out.splits[k].test)}

\* C28: when the dates hold repeats, no date of a returned fold is on both
\* sides, the positions of one date are all on the side of any of them, and
\* the latest train date plus the embargo is at most the earliest test date.
C28_RepeatedDatesOneSide ==
    (SplitOk /\ RepeatedDates) =>
        \A k \in 1..Len(split_out.splits) :
            LET train == Elems(split_out.splits[k].train)
                test == Elems(split_out.splits[k].test)
            IN  /\ TrainDates(k) \cap TestDates(k) = {}
                /\ \A p, q \in 0..(Len(DatesSorted) - 1) :
                       DateAt(p) = DateAt(q) =>
                           /\ p \in train => q \in train
                           /\ p \in test => q \in test
                /\ \A d \in TrainDates(k) : \A e \in TestDates(k) :
                       d + split_in.embargo_days <= e

\* a fold without embargo whose test window starts at a date held by two
\* rows, the day after a train date
C28_Witness ==
    /\ SplitOk
    /\ split_in.embargo_days = 0
    /\ \E k \in 1..Len(split_out.splits) :
           \E p, q \in Elems(split_out.splits[k].test) :
               /\ p # q
               /\ DateAt(p) = DateAt(q)
               /\ \A e \in TestDates(k) : DateAt(p) <= e
               /\ DateAt(p) - 1 \in TrainDates(k)

TrainOk == train_in # None /\ train_out # None /\ train_out.status = "ok"

\* the date of the row at a 0-based position of the trainer's sorted frame
TrainDateAt(p) == train_out.dates[p + 1]

\* C23: in each fold the validation rows are the last floor(0.2 * n_train)
\* train rows and the fit rows are the train rows before them: fit followed
\* by validation is the train set, no row is in both, no validation row is
\* dated before a fit row, and no test row is in either slice.
C23_ValidationIsLatestTrain ==
    TrainOk =>
        \A k \in 1..Len(train_out.fold_metrics) :
            LET f == train_out.fold_metrics[k]
                n_train == Len(f.train_idx)
            IN  /\ Len(f.val) = n_train \div 5
                /\ f.fit \o f.val = f.train_idx
                /\ Elems(f.fit) \cap Elems(f.val) = {}
                /\ \A a \in Elems(f.fit) : \A v \in Elems(f.val) :
                       a < v /\ TrainDateAt(a) <= TrainDateAt(v)
                /\ Elems(f.test_idx) \cap (Elems(f.fit) \cup Elems(f.val)) = {}

\* a fold with at least five train rows: one of them is held out for early
\* stopping, and it is dated as late as the latest fit row
C23_Witness ==
    /\ TrainOk
    /\ \E k \in 1..Len(train_out.fold_metrics) :
           LET f == train_out.fold_metrics[k]
           IN  /\ Len(f.train_idx) >= 5
               /\ Len(f.val) = 1
               /\ Len(f.fit) = Len(f.train_idx) - 1
               /\ TrainDateAt(f.val[1]) = TrainDateAt(f.fit[Len(f.fit)])

TrainDone == train_in # None /\ train_out # None

\* the dates of the loaded rows, ascending
TrainDatesSorted ==
    NpSort([i \in 1..Len(train_in.loaded) |-> train_in.loaded[i].dt])

\* candidate fold i (0-based) of the trainer's call of the splitter
TrainCandidate(i) ==
    CandidateFold(TrainDatesSorted, train_in.n_splits, train_in.embargo_days,
                  train_in.test_pct, i)

\* the candidates with a train row and a test row, ascending
Survivors ==
    SelectSeq([k \in 1..train_in.n_splits |-> k - 1],
              LAMBDA i : /\ TrainCandidate(i).train # <<>>
                         /\ TrainCandidate(i).test # <<>>)

\* C25: with enough rows for the requested folds, the folds of the outcome
\* are the candidates that have a train row and a test row, in order; the
\* call succeeds when there is such a candidate, with 1 to n_splits folds,
\* and n_folds is the number of folds the splitter returned.
C25_FoldSkippingSurfaced ==
    (TrainDone /\ Len(train_in.loaded) >= train_in.n_splits + 1) =>
        /\ train_out.status = "ok" <=> Survivors # <<>>
        /\ train_out.status = "ok" =>
               /\ train_out.n_folds = Len(Survivors)
               /\ train_out.n_folds >= 1
               /\ train_out.n_folds <= train_in.n_splits
               /\ Len(train_out.fold_metrics) = train_out.n_folds
               /\ train_out.n_folds =
                      Len(expanding_window_split(
                              TrainDatesSorted, train_in.n_splits,
                              train_in.embargo_days, train_in.test_pct).splits)
               /\ \A k \in 1..Len(Survivors) :
                      /\ train_out.fold_metrics[k].train_idx
                             = TrainCandidate(Survivors[k]).train
                      /\ train_out.fold_metrics[k].test_idx
                             = TrainCandidate(Survivors[k]).test

\* three folds were asked for, the first candidate has no train row under
\* the embargo, and the trainer reports the two folds that are left
C25_Witness ==
    /\ TrainOk
    /\ train_in.n_splits = 3
    /\ train_in.embargo_days = 2
    /\ TrainCandidate(0).train = <<>>
    /\ train_out.n_folds = 2
    /\ Len(train_out.fold_metrics) = 2

StdDone == std_in # None /\ std_out # None

\* the rounds the forecaster predicts with: best_iteration, or every round
\* of the booster when best_iteration is 0
EnsembleSize ==
    IF std_in.self.best_iteration > 0 THEN std_in.self.best_iteration
    ELSE std_in.self.n_rounds

\* C24: predict_with_std on a trained forecaster returns, and its deviation
\* is over exactly min(K, B) predictions, those of the last min(K, B)
\* rounds of an ensemble of B rounds; there is always at least one.
C24_StdOverLastK ==
    (StdDone /\ std_in.self.trained) =>
        LET B == EnsembleSize
            m == Min(std_in.n_trees, B)
        IN  /\ std_out.status = "ok"
            /\ std_out.iterations # <<>>
            /\ Len(std_out.iterations) = m
            /\ std_out.iterations = [k \in 1..m |-> B - m + k]

\* the same statement for the calls with K of at least the ensemble size
\* and a best_iteration set by early stopping
C24_CappedAtEnsemble ==
    (StdDone /\ std_in.self.trained /\ std_in.self.best_iteration > 0
        /\ std_in.n_trees >= std_in.self.best_iteration) =>
        /\ std_out.status = "ok"
        /\ std_out.iterations =
               [k \in 1..std_in.self.best_iteration |-> k]

(***************************************************************************)
(* Claims about labels in the features table, checked under Spec.          *)
(***************************************************************************)
\* C27: a feature run leaves the label of every stored row as it was and
\* gives a new row an empty label; the SELECT of a label run changes no
\* label; the UPDATEs of a label run set the label of the rows the run kept
\* (those it had a label row for and found stored) and leave every other
\* label as it was.  So at any time the label of a row is that of the label
\* run that last wrote it, or empty.
C27_LabelsSurviveFeatureRuns ==
    [][/\ ReturnedAtOnce("_upsert_features") =>
              \A k \in DOMAIN features' :
                  features'[k].label_ret_1d =
                      IF k \in DOMAIN features THEN features[k].label_ret_1d
                      ELSE NaN
       /\ ReturnedAtOnce("upsert_labels_to_features") => features' = features
       /\ \A s \in Sessions :
              /\ BeganIn(s) => features' = features
              /\ CommittedIn(s) =>
                     \A k \in DOMAIN features' :
                         /\ k \in DOMAIN features
                         /\ IF KeptRows(label_runs[s], k) = {}
                            THEN features'[k].label_ret_1d
                                     = features[k].label_ret_1d
                            ELSE \A j \in KeptRows(label_runs[s], k) :
                                     features'[k].label_ret_1d =
                                         label_runs[s].labels_to_update[j].label
    ]_vars

\* the last call was a feature run with the second version of the values
\* over a stored row: the row holds that version and still has a label
C27_Witness ==
    /\ FeaturesCalled
    /\ \E i \in 1..Len(db_call.df) :
           /\ db_call.df[i].features_json = 2
           /\ features[KeyOf(db_call.df[i])].features_json = 2
           /\ features[KeyOf(db_call.df[i])].label_ret_1d # NaN

(***************************************************************************)
(* Claims about labels of several horizons, checked under SpecHorizons.    *)
(***************************************************************************)
\* the price row of a key is fetched by a labelling run
Fetched(call, k) ==
    /\ k \in Keys
    /\ call.tickers # {} => k[1] \in call.tickers
    /\ call.start_date # NaN => k[2] >= call.start_date[1]
    /\ call.end_date # NaN => k[2] <= call.end_date[1]

\* a labelling run has a label for a key: the key's price row and the one
\* horizon_days trading days later are both fetched
Labelled(call, k) ==
    /\ Fetched(call, k)
    /\ Fetched(call, <<k[1], k[2] + call.horizon_days>>)

\* close[t+H] / close[t] - 1 from the prices table
StoredReturn(k, H) ==
    <<StoredCloseOf(<<k[1], k[2] + H>>) - StoredCloseOf(k), StoredCloseOf(k)>>

\* C30: compute_and_upsert_labels with horizon H keeps, at its SELECT, the
\* stored rows it has a label for, and its UPDATEs write the H-day forward
\* return into the one label field of every kept row, whatever that field
\* holds by then, and leave the label of every other row as it is; the call
\* adds no row.
C30_OneLabelFieldForAllHorizons ==
    [][/\ ReturnedAtOnce("compute_and_upsert_labels") =>
              /\ db_ret' = [status |-> "ok", value |-> 0]
              /\ features' = features
              /\ \A k \in DOMAIN features : ~Labelled(db_call', k)
       /\ \A s \in Sessions :
              /\ BeganIn(s) =>
                     /\ features' = features
                     /\ \A k \in DbKeys :
                            KeptRows(label_runs'[s], k) # {}
                                <=> /\ k \in DOMAIN features
                                    /\ Labelled(label_runs'[s].call, k)
              /\ CommittedIn(s) =>
                     /\ db_call' = label_runs[s].call
                     /\ db_ret'.status = "ok"
                     /\ DOMAIN features' = DOMAIN features
                     /\ \A k \in DOMAIN features :
                            features'[k].label_ret_1d =
                                IF KeptRows(label_runs[s], k) # {}
                                THEN StoredReturn(
                                         k, label_runs[s].call.horizon_days)
                                ELSE features[k].label_ret_1d
    ]_vars

\* after a run with horizon 2 the table holds a 2-day return on a row that
\* run covered and a 1-day return, written by an earlier run, on a row it
\* did not cover
C30_Witness ==
    /\ db_call # None
    /\ db_call.op = "compute_and_upsert_labels"
    /\ db_call.horizon_days = 2
    /\ \E k, o \in DOMAIN features :
           /\ Labelled(db_call, k)
           /\ features[k].label_ret_1d = StoredReturn(k, 2)
           /\ ~Labelled(db_call, o)
           /\ features[o].label_ret_1d = StoredReturn(o, 1)
           /\ StoredReturn(o, 1) # StoredReturn(o, 2)

====
